---- MODULE Spec2Model ----
(***************************************************************************)
(* The movement / collision core of the rhythm platformer                  *)
(* (src/src/game/movement.rs) together with the parts of the level, the    *)
(* player and the sequencer it reads and writes.                           *)
(*                                                                         *)
(* Units.  The source computes in f32 pixels and seconds.  The model works *)
(* on an integer grid: one length unit is half a box                       *)
(* (BOX_SIZE == 2 for 57 px), one velocity unit is a third of the jump     *)
(* velocity (JUMP_VELOCITY == 3 for 800 px/s) and one time unit is the     *)
(* time gravity takes to remove one velocity unit (GRAVITY == 1).  Every   *)
(* size is even, so that the halves the source takes are exact.  The grid  *)
(* step is many orders of magnitude larger than f32::EPSILON, so on grid   *)
(* values `d > f32::EPSILON` is `d > 0` and `d.abs() <= f32::EPSILON` is   *)
(* `d = 0`: EPSILON == 0.                                                  *)
(***************************************************************************)
EXTENDS Integers, Sequences, FiniteSets, TLC

VARIABLES
    translation,     \* the player's Transform.translation: [x, y]
    controller,      \* MovementController: [speed, jumping, vertical_velocity]
    paused,          \* Paused resource
    dead,            \* Dead resource
    total_distance,  \* TotalDistance resource
    current_level,   \* CurrentLevel resource
    colliders,       \* every (Transform, RectCollider) entity other than the player, in query order
    game_over,       \* the number of GameOver entities (each handle_death spawns one)
    schedule,        \* the frame under way: systems run, commands queued, Sequence, beat timer
    last,            \* history: the last operation and the branches it took
    round_trip       \* history: a jump from rest on the floor is under way

vars == <<translation, controller, paused, dead, total_distance, current_level, colliders,
          game_over, schedule, last, round_trip>>

-----------------------------------------------------------------------------
(* Bounds of the model. *)

\* the largest frame time, in time units: dt ranges over 0..MaxDt
MaxDt == 2
\* the number of level wraps a run may make
MaxLevel == 0
\* the largest downward vertical velocity of the controllers an event is tried on
MaxFall == 6
\* the last level index the runs that start at the level's right end reach
MaxWrapLevel == 5
\* the number of frames followed system by system
MaxFrames == 3
\* the largest registry tried in every order
MaxPermuted == 5

-----------------------------------------------------------------------------
(* Program constants, in model units. *)

GRAVITY == 1
JUMP_VELOCITY == 3
FLOAT_VELOCITY == 4
FLOAT_LIMIT == -1
DIVE_VELOCITY == -3
DIVE_LIMIT == -3
EPSILON == 0

FLOOR_Y == 0
LEVEL_WIDTH == 20
FLOOR_HEIGHT == 2
FLOOR_EXTRA_WIDTH == 8
BOX_SIZE == 2
SPIKES_IMAGE_SIZE == 2
TOP_OF_FLOOR == FLOOR_Y + (FLOOR_HEIGHT \div 2)
TOTAL_LEVELS == 4

PLAYER_IMAGE_SIZE == 4
NUM_SYNTH_NOTES == 2
NUM_BEATS_IN_SEQUENCE == 2
SPEED_MULTIPLIER == 1

-----------------------------------------------------------------------------
(* Helpers standing for Rust's Option, f32::min/max/abs. *)

None == <<>>
Some(v) == <<v>>
Min(a, b) == IF a <= b THEN a ELSE b
Max(a, b) == IF a >= b THEN a ELSE b
Abs(a) == IF a >= 0 THEN a ELSE -a

-----------------------------------------------------------------------------
(* Colliders and the level layouts (src/src/game/spawn/level.rs). *)

\* a (Transform, RectCollider) entity; obstacle / spikes are its marker components
Collider(px, py, w, h, ox, oy, isObstacle, isSpikes) ==
    [x |-> px, y |-> py, bounds |-> [x |-> w, y |-> h], offset |-> [x |-> ox, y |-> oy],
     obstacle |-> isObstacle, spikes |-> isSpikes]

\* the four edges the systems compute for a collider
ColliderEdges(c) ==
    [left   |-> c.x + c.offset.x - (c.bounds.x \div 2),
     right  |-> c.x + c.offset.x + (c.bounds.x \div 2),
     top    |-> c.y + c.offset.y + (c.bounds.y \div 2),
     bottom |-> c.y + c.offset.y - (c.bounds.y \div 2)]

\* the Floor entity spawn_level makes: not an Obstacle, so spawn_obstacles keeps it
FloorCollider ==
    Collider(0, FLOOR_Y, LEVEL_WIDTH + FLOOR_EXTRA_WIDTH, FLOOR_HEIGHT, 0, 0, FALSE, FALSE)

spawn_box(px, py) == <<Collider(px, py, BOX_SIZE, BOX_SIZE, 0, 0, TRUE, FALSE)>>

\* floor spikes: the source's collider (SPIKES_WIDTH x SPIKES_HEIGHT, at the bottom of the
\* image) is taken as the whole tile of the image
spawn_floor_spikes(px, py) ==
    <<Collider(px, py, SPIKES_IMAGE_SIZE, SPIKES_IMAGE_SIZE, 0, 0, TRUE, TRUE)>>

\* wall spikes: the source's collider (SPIKES_HEIGHT x SPIKES_WIDTH, at the right of the
\* image) is taken as the whole tile of the image
spawn_wall_spikes(px, py) ==
    <<Collider(px, py, SPIKES_IMAGE_SIZE, SPIKES_IMAGE_SIZE, 0, 0, TRUE, TRUE)>>

spawn_box_with_spikes_on_side(px, py) ==
    spawn_box(px, py)
        \o spawn_wall_spikes(px - (BOX_SIZE \div 2) - (SPIKES_IMAGE_SIZE \div 2), py)

spawn_level_0 ==
    spawn_box(0, TOP_OF_FLOOR + (BOX_SIZE \div 2))
        \o spawn_floor_spikes((BOX_SIZE \div 2) + (SPIKES_IMAGE_SIZE \div 2),
                              TOP_OF_FLOOR + (SPIKES_IMAGE_SIZE \div 2))

spawn_level_1 ==
    spawn_box_with_spikes_on_side(-BOX_SIZE, TOP_OF_FLOOR + (BOX_SIZE \div 2))
        \o spawn_floor_spikes(-BOX_SIZE, TOP_OF_FLOOR + BOX_SIZE + (SPIKES_IMAGE_SIZE \div 2))

spawn_level_2 ==
    spawn_box(BOX_SIZE * (-3), TOP_OF_FLOOR + (BOX_SIZE \div 2))
        \o spawn_box_with_spikes_on_side(0, TOP_OF_FLOOR + (BOX_SIZE * 3))
        \o spawn_box(BOX_SIZE * 3, TOP_OF_FLOOR + (BOX_SIZE \div 2))

spawn_level_3 ==
    spawn_box(BOX_SIZE * (-4), TOP_OF_FLOOR + (BOX_SIZE \div 2))
        \o spawn_box(BOX_SIZE * (-3), TOP_OF_FLOOR + BOX_SIZE + (BOX_SIZE \div 2))
        \o spawn_box(BOX_SIZE * (-2), TOP_OF_FLOOR + (BOX_SIZE * 2) + (BOX_SIZE \div 2))
        \o spawn_box_with_spikes_on_side(BOX_SIZE * 2, TOP_OF_FLOOR + (BOX_SIZE * 5) + (BOX_SIZE \div 2))
        \o spawn_box_with_spikes_on_side(BOX_SIZE * 2, TOP_OF_FLOOR + (BOX_SIZE * 4) + (BOX_SIZE \div 2))
        \o spawn_box_with_spikes_on_side(BOX_SIZE * 2, TOP_OF_FLOOR + (BOX_SIZE * 3) + (BOX_SIZE \div 2))
        \o spawn_box_with_spikes_on_side(BOX_SIZE * 2, TOP_OF_FLOOR + (BOX_SIZE * 2) + (BOX_SIZE \div 2))

\* spawn_obstacles: despawn every Obstacle entity, then spawn the layout of level n mod TOTAL_LEVELS
spawn_obstacles(reg, n) ==
    SelectSeq(reg, LAMBDA c : ~c.obstacle)
        \o CASE n % TOTAL_LEVELS = 0 -> spawn_level_0
             [] n % TOTAL_LEVELS = 1 -> spawn_level_1
             [] n % TOTAL_LEVELS = 2 -> spawn_level_2
             [] n % TOTAL_LEVELS = 3 -> spawn_level_3

-----------------------------------------------------------------------------
(* The player (src/src/game/spawn/player.rs). *)

\* the Player component spawn_player attaches: collider size and offset
Player == [collider |-> [x |-> 2, y |-> 2], collider_offset |-> [x |-> 1, y |-> 0]]

\* the four edges apply_movement and check_spike_collisions compute for the player
PlayerEdges(t) ==
    [left   |-> t.x + Player.collider_offset.x - (Player.collider.x \div 2),
     right  |-> t.x + Player.collider_offset.x + (Player.collider.x \div 2),
     top    |-> t.y + Player.collider_offset.y + (Player.collider.y \div 2),
     bottom |-> t.y + Player.collider_offset.y - (Player.collider.y \div 2)]

\* the translation spawn_player gives the player
SpawnTranslation ==
    [x |-> (-LEVEL_WIDTH \div 2) + (PLAYER_IMAGE_SIZE \div 2),
     y |-> FLOOR_Y - Player.collider_offset.y + (Player.collider.y \div 2) + 1]

\* MovementController::new()
NewMovementController == [speed |-> 0, jumping |-> FALSE, vertical_velocity |-> 0]

-----------------------------------------------------------------------------
(* Player actions (src/src/game/movement.rs, src/src/game/spawn/sequencer.rs). *)

SetSpeed(v) == [type |-> "SetSpeed", v |-> v]
Jump == [type |-> "Jump", v |-> 0]
Float == [type |-> "Float", v |-> 0]
Dive == [type |-> "Dive", v |-> 0]

\* SequencerRow and SequencerRow::to_player_action
SynthNote(i) == [row |-> "SynthNote", i |-> i]
HiHat == [row |-> "HiHat", i |-> 0]
Snare == [row |-> "Snare", i |-> 0]
Kick == [row |-> "Kick", i |-> 0]
SequencerRows == {SynthNote(i) : i \in 0..(NUM_SYNTH_NOTES - 1)} \cup {HiHat, Snare, Kick}

to_player_action(r) ==
    CASE r.row = "SynthNote" -> SetSpeed(r.i * SPEED_MULTIPLIER)
      [] r.row = "HiHat" -> Float
      [] r.row = "Snare" -> Dive
      [] r.row = "Kick" -> Jump

\* the speeds SetSpeed carries: those of the synth rows and, as the event takes any
\* f32, a leftward one
Speeds == {to_player_action(SynthNote(i)).v : i \in 0..(NUM_SYNTH_NOTES - 1)} \cup {-SPEED_MULTIPLIER}

\* the events do_player_action receives
PlayerActions == {SetSpeed(v) : v \in Speeds} \cup {Jump, Float, Dive}

\* a Jump arm without the guard on jumping
JumpArmUnguarded(c) == [c EXCEPT !.jumping = TRUE, !.vertical_velocity = JUMP_VELOCITY]

\* the Jump arm of do_player_action
JumpArm(c) ==
    IF ~c.jumping
    THEN [c EXCEPT !.jumping = TRUE, !.vertical_velocity = JUMP_VELOCITY]
    ELSE c

\* a Float arm without the clamp to FLOAT_LIMIT
FloatArmUnclamped(c) ==
    IF c.jumping /\ c.vertical_velocity < FLOAT_LIMIT
    THEN [c EXCEPT !.vertical_velocity = c.vertical_velocity + FLOAT_VELOCITY]
    ELSE c

\* the Float arm of do_player_action
FloatArm(c) ==
    IF c.jumping /\ c.vertical_velocity < FLOAT_LIMIT
    THEN [c EXCEPT !.vertical_velocity = Min(c.vertical_velocity + FLOAT_VELOCITY, FLOAT_LIMIT)]
    ELSE c

\* a Dive arm without its guard: it acts on every controller
DiveArmUnguarded(c) ==
    [c EXCEPT !.vertical_velocity = Max(c.vertical_velocity + DIVE_VELOCITY, DIVE_LIMIT)]

\* the Dive arm of do_player_action
DiveArm(c) ==
    IF c.jumping /\ c.vertical_velocity > DIVE_LIMIT
    THEN [c EXCEPT !.vertical_velocity = Max(c.vertical_velocity + DIVE_VELOCITY, DIVE_LIMIT)]
    ELSE c

\* a do_player_action whose SetSpeed arm adds to the speed
do_player_action_SpeedAdded(c, a) ==
    CASE a.type = "SetSpeed" -> [c EXCEPT !.speed = c.speed + a.v]
      [] a.type = "Jump" -> JumpArm(c)
      [] a.type = "Float" -> FloatArm(c)
      [] a.type = "Dive" -> DiveArm(c)

\* a do_player_action whose SetSpeed needs the player on the ground
do_player_action_SpeedOnGround(c, a) ==
    CASE a.type = "SetSpeed" -> IF c.jumping THEN c ELSE [c EXCEPT !.speed = a.v]
      [] a.type = "Jump" -> JumpArm(c)
      [] a.type = "Float" -> FloatArm(c)
      [] a.type = "Dive" -> DiveArm(c)

\* do_player_action: the controller after the event
do_player_action(c, a) ==
    CASE a.type = "SetSpeed" -> [c EXCEPT !.speed = a.v]
      [] a.type = "Jump" -> JumpArm(c)
      [] a.type = "Float" -> FloatArm(c)
      [] a.type = "Dive" -> DiveArm(c)

-----------------------------------------------------------------------------
(* apply_movement (src/src/game/movement.rs). *)

\* the scan for the closest thing to run into when moving to the right:
\* folds the query in order, keeping the left edge of the closest wall
RECURSIVE ClosestWall(_, _, _, _)
ClosestWall(reg, i, p, acc) ==
    IF i > Len(reg) THEN acc
    ELSE LET o == ColliderEdges(reg[i])
             candidate == /\ ~(p.bottom > o.top \/ p.top < o.bottom)
                          /\ p.right <= o.left
         IN  ClosestWall(reg, i + 1, p,
                 IF ~candidate THEN acc
                 ELSE IF acc = None THEN Some(o.left)
                 ELSE IF (o.left - p.right) < (acc[1] - p.right) THEN Some(o.left)
                 ELSE acc)

\* a "move rightwards" block that moves by the speed, whatever the frame time
HorizontalPassUnscaled(t, c, p, wall, dt) ==
    IF wall # None
    THEN IF wall[1] - p.right > EPSILON
         THEN Min(t.x + c.speed,
                  wall[1] - Player.collider_offset.x - (Player.collider.x \div 2))
         ELSE t.x
    ELSE t.x + c.speed

\* the x the "move rightwards" block leaves in the translation
HorizontalPass(t, c, p, wall, dt) ==
    IF wall # None
    THEN IF wall[1] - p.right > EPSILON
         THEN Min(t.x + (c.speed * dt),
                  wall[1] - Player.collider_offset.x - (Player.collider.x \div 2))
         ELSE t.x
    ELSE t.x + (c.speed * dt)

\* the branch of the "move rightwards" block that ran
HorizontalBranch(t, c, p, wall, dt) ==
    IF wall # None
    THEN IF wall[1] - p.right > EPSILON
         THEN IF t.x + (c.speed * dt)
                   <= wall[1] - Player.collider_offset.x - (Player.collider.x \div 2)
              THEN "move" ELSE "clamp"
         ELSE "blocked"
    ELSE "free"

\* the player edges the floor / ceiling scan tests: those computed at the top of
\* the loop body, before the translation moved
VerticalScanEdges(before, after) == PlayerEdges(before)

\* a scan that keeps the first floor or ceiling it finds, however far
RECURSIVE ClosestFloorOrCeilingFirstFound(_, _, _, _, _)
ClosestFloorOrCeilingFirstFound(reg, i, p, vv, acc) ==
    IF i > Len(reg) THEN acc
    ELSE LET o == ColliderEdges(reg[i])
             overlap == ~(p.left > o.right \/ p.right < o.left)
             next ==
                 IF acc # None THEN acc
                 ELSE IF vv <= 0
                 THEN IF overlap /\ o.top <= p.bottom THEN Some(o.top) ELSE acc
                 ELSE IF overlap /\ o.bottom >= p.top THEN Some(o.bottom) ELSE acc
         IN  ClosestFloorOrCeilingFirstFound(reg, i + 1, p, vv, next)

\* the scan for the closest thing to run into when falling or jumping
RECURSIVE ClosestFloorOrCeiling(_, _, _, _, _)
ClosestFloorOrCeiling(reg, i, p, vv, acc) ==
    IF i > Len(reg) THEN acc
    ELSE LET o == ColliderEdges(reg[i])
             overlap == ~(p.left > o.right \/ p.right < o.left)
             next ==
                 IF vv <= 0
                 THEN IF overlap /\ o.top <= p.bottom
                      THEN IF acc = None THEN Some(o.top)
                           ELSE IF (p.bottom - o.top) < (p.bottom - acc[1]) THEN Some(o.top)
                           ELSE acc
                      ELSE acc
                 ELSE IF overlap /\ o.bottom >= p.top
                      THEN IF acc = None THEN Some(o.bottom)
                           ELSE IF (o.bottom - p.top) < (acc[1] - p.top) THEN Some(o.bottom)
                           ELSE acc
                      ELSE acc
         IN  ClosestFloorOrCeiling(reg, i + 1, p, vv, next)

\* a falling arm that moves by the velocity the tick ends with
FallingArmVelocityFirst(t, c, p, floor, dt) ==
    IF p.bottom - floor > EPSILON
    THEN LET proposed_y == t.y + ((c.vertical_velocity - (GRAVITY * dt)) * dt)
             min_y == floor - Player.collider_offset.y + (Player.collider.y \div 2)
             new_y == Max(proposed_y, min_y)
         IN  IF Abs(new_y - min_y) > EPSILON
             THEN [y |-> new_y, vertical_velocity |-> c.vertical_velocity - (GRAVITY * dt),
                   jumping |-> TRUE]
             ELSE [y |-> new_y, vertical_velocity |-> 0, jumping |-> FALSE]
    ELSE [y |-> t.y, vertical_velocity |-> c.vertical_velocity, jumping |-> c.jumping]

\* a falling arm that does not stop the move at the floor
FallingArmUnclamped(t, c, p, floor, dt) ==
    IF p.bottom - floor > EPSILON
    THEN LET proposed_y == t.y + (c.vertical_velocity * dt)
             min_y == floor - Player.collider_offset.y + (Player.collider.y \div 2)
             new_y == proposed_y
         IN  IF Abs(new_y - min_y) > EPSILON
             THEN [y |-> new_y, vertical_velocity |-> c.vertical_velocity - (GRAVITY * dt),
                   jumping |-> TRUE]
             ELSE [y |-> new_y, vertical_velocity |-> 0, jumping |-> FALSE]
    ELSE [y |-> t.y, vertical_velocity |-> c.vertical_velocity, jumping |-> c.jumping]

\* the falling arm of "move downwards or upwards": [y, vertical_velocity, jumping]
FallingArm(t, c, p, floor, dt) ==
    IF p.bottom - floor > EPSILON
    THEN LET proposed_y == t.y + (c.vertical_velocity * dt)
             min_y == floor - Player.collider_offset.y + (Player.collider.y \div 2)
             new_y == Max(proposed_y, min_y)
         IN  IF Abs(new_y - min_y) > EPSILON
             THEN [y |-> new_y, vertical_velocity |-> c.vertical_velocity - (GRAVITY * dt),
                   jumping |-> TRUE]
             ELSE [y |-> new_y, vertical_velocity |-> 0, jumping |-> FALSE]
    ELSE [y |-> t.y, vertical_velocity |-> c.vertical_velocity, jumping |-> c.jumping]

\* the jumping arm of "move downwards or upwards"
JumpingArm(t, c, p, ceiling, dt) ==
    IF ceiling - p.top > EPSILON
    THEN LET proposed_y == t.y + (c.vertical_velocity * dt)
             max_y == ceiling - Player.collider_offset.y - (Player.collider.y \div 2)
             new_y == Min(proposed_y, max_y)
         IN  IF Abs(max_y - new_y) > EPSILON
             THEN [y |-> new_y, vertical_velocity |-> c.vertical_velocity - (GRAVITY * dt),
                   jumping |-> TRUE]
             ELSE [y |-> new_y, vertical_velocity |-> 0, jumping |-> TRUE]
    ELSE [y |-> t.y, vertical_velocity |-> c.vertical_velocity - (GRAVITY * dt),
          jumping |-> TRUE]

\* a free move that integrates the velocity before the position
FreeArmVelocityFirst(t, c, dt) ==
    [y |-> t.y + ((c.vertical_velocity - (GRAVITY * dt)) * dt),
     vertical_velocity |-> c.vertical_velocity - (GRAVITY * dt),
     jumping |-> c.jumping]

\* the "nothing to run into" arm
FreeArm(t, c, dt) ==
    [y |-> t.y + (c.vertical_velocity * dt),
     vertical_velocity |-> c.vertical_velocity - (GRAVITY * dt),
     jumping |-> c.jumping]

\* "move downwards or upwards"
VerticalPass(t, c, p, closest, dt) ==
    IF closest # None
    THEN IF c.vertical_velocity <= 0
         THEN FallingArm(t, c, p, closest[1], dt)
         ELSE JumpingArm(t, c, p, closest[1], dt)
    ELSE FreeArm(t, c, dt)

\* the branch of "move downwards or upwards" that ran
VerticalBranch(t, c, p, closest, dt) ==
    IF closest # None
    THEN IF c.vertical_velocity <= 0
         THEN IF p.bottom - closest[1] > EPSILON
              THEN IF FallingArm(t, c, p, closest[1], dt).jumping THEN "fall" ELSE "land"
              ELSE "rest"
         ELSE IF closest[1] - p.top > EPSILON
              THEN IF Abs((closest[1] - Player.collider_offset.y - (Player.collider.y \div 2))
                          - JumpingArm(t, c, p, closest[1], dt).y) > EPSILON
                   THEN "rise" ELSE "hit"
              ELSE "smack"
    ELSE "open"

\* one unpaused pass of apply_movement over translation t and controller c:
\* the new translation and controller, and what the two scans found
apply_movement(t, c, reg, dt) ==
    LET p == PlayerEdges(t)
        wall == ClosestWall(reg, 1, p, None)
        new_x == HorizontalPass(t, c, p, wall, dt)
        scan == VerticalScanEdges(t, [t EXCEPT !.x = new_x])
        closest == ClosestFloorOrCeiling(reg, 1, [p EXCEPT !.left = scan.left, !.right = scan.right],
                                         c.vertical_velocity, None)
        v == VerticalPass(t, c, p, closest, dt)
    IN  [translation |-> [x |-> new_x, y |-> v.y],
         controller |-> [c EXCEPT !.vertical_velocity = v.vertical_velocity,
                                  !.jumping = v.jumping],
         wall |-> wall,
         closest |-> closest,
         h |-> HorizontalBranch(t, c, p, wall, dt),
         v |-> VerticalBranch(t, c, p, closest, dt)]

-----------------------------------------------------------------------------
(* check_spike_collisions and wrap_within_level (src/src/game/movement.rs). *)

\* a hazard test without the top / bottom condition
SpikeTriggersSideOnly(p, o) ==
    IF /\ Abs(o.left - p.right) <= EPSILON
       /\ ~(p.bottom > o.top \/ p.top < o.bottom)
    THEN 1 ELSE 0

\* the number of DeathEvent triggers one Spikes collider queues for player edges p
SpikeTriggers(p, o) ==
    (IF /\ Abs(o.left - p.right) <= EPSILON
        /\ ~(p.bottom > o.top \/ p.top < o.bottom)
     THEN 1 ELSE 0)
    +
    (IF /\ (Abs(p.bottom - o.top) <= EPSILON \/ Abs(o.bottom - p.top) <= EPSILON)
        /\ ~(p.left > o.right \/ p.right < o.left)
     THEN 1 ELSE 0)

\* the number of DeathEvent triggers check_spike_collisions queues in one pass
RECURSIVE check_spike_collisions(_, _, _)
check_spike_collisions(reg, i, p) ==
    IF i > Len(reg) THEN 0
    ELSE (IF reg[i].spikes THEN SpikeTriggers(p, ColliderEdges(reg[i])) ELSE 0)
         + check_spike_collisions(reg, i + 1, p)

\* a wrap condition that already holds with the image's left edge on the boundary
WrapConditionAtBoundary(t) == t.x - (PLAYER_IMAGE_SIZE \div 2) >= LEVEL_WIDTH \div 2

\* the condition under which wrap_within_level moves the player and loads the next level
WrapCondition(t) == t.x - (PLAYER_IMAGE_SIZE \div 2) > LEVEL_WIDTH \div 2

\* an x for the wrapped player that is still beyond the right end of the level
WrapXBeyondRightEdge == (LEVEL_WIDTH \div 2) + (PLAYER_IMAGE_SIZE \div 2) + 1

\* the x wrap_within_level gives the player
WrapX == (-LEVEL_WIDTH \div 2) - (PLAYER_IMAGE_SIZE \div 2)

-----------------------------------------------------------------------------
(* The state machine. *)

\* what a step records: the operation ("tick" for a frame in which apply_movement
\* ran, "idle" for a frame of the paused game) and the branches the two passes of
\* apply_movement took
History(op, h, v) == [op |-> op, h |-> h, v |-> v]

ControlHistory(op) == History(op, "-", "-")

\* what a tick leaves in last: the branches that ran and whether the controller it
\* found was at rest (not jumping, no vertical velocity)
TickHistory(h, v, c) ==
    [op |-> "tick", h |-> h, v |-> v, rest |-> (~c.jumping /\ c.vertical_velocity = 0)]

\* the floor is the highest collider top under the player at t: the floor's top is at or
\* below the player's bottom edge, and no collider that the player stands over with
\* part of its width has its top between the two
OverTheFloor(t, reg) ==
    LET p == PlayerEdges(t)
    IN  /\ TOP_OF_FLOOR <= p.bottom
        /\ \A i \in 1..Len(reg) :
              LET o == ColliderEdges(reg[i])
              IN  (p.left < o.right /\ p.right > o.left /\ o.top <= p.bottom)
                      => o.top <= TOP_OF_FLOOR

\* the player at t with controller c is at rest with its bottom edge on the floor's top
LandedOnTheFloor(t, c) ==
    /\ ~c.jumping
    /\ c.vertical_velocity = 0
    /\ PlayerEdges(t).bottom = TOP_OF_FLOOR

\* the round trip an event starts, ends or leaves as it is: a Jump that takes effect
\* on a player at rest on the floor, the game running, starts one; a Float or a Dive
\* ends it
RoundTripAfterAction(a) ==
    IF a.type \in {"Float", "Dive"} THEN FALSE
    ELSE IF /\ a.type = "Jump"
            /\ ~paused
            /\ LandedOnTheFloor(translation, controller)
            /\ OverTheFloor(translation, colliders)
         THEN TRUE
         ELSE round_trip

\* the round trip after a frame: it ends with the landing on the floor, with a pause
\* (a death) and when the floor is no longer the highest collider under the player
RoundTripAfterFrame(t, c, isPaused) ==
    /\ round_trip
    /\ ~isPaused
    /\ ~LandedOnTheFloor(t, c)
    /\ OverTheFloor(t, colliders)

\* a Sequence with the rows r, in that iteration order, on every beat
EveryBeat(r) == [b \in 1..NUM_BEATS_IN_SEQUENCE |-> r]

\* the BeatButtons that are active when the Sequence rows was made with them
ButtonsOf(rows) ==
    UNION {{[row |-> rows[b][i], beat |-> b - 1] : i \in 1..Len(rows[b])} :
              b \in 1..Len(rows)}

\* the schedule of a frame taken as one step: nothing queued, the beat timer as
\* SequenceState::new() leaves it, the Sequence as Sequence::new() leaves it (rows: for
\* each beat the rows in its HashSet, in the order it yields them), the BeatButtons as
\* spawn_sequencer_row leaves them (active: the buttons whose active is true;
\* enabled: the Enabled of the beat buttons, which are all written together)
WholeFrames ==
    [node |-> 0, input |-> FALSE, queue |-> <<>>, timer_paused |-> TRUE, timer_zero |-> TRUE,
     rows |-> EveryBeat(<<>>), frames |-> 0, resolved |-> FALSE, beat |-> 0,
     enabled |-> TRUE, active |-> {}]

\* the colliders spawn_level makes: the floor, then the obstacles of level 0
GameRegistry == <<FloorCollider>> \o spawn_obstacles(<<>>, 0)

\* the state once spawn_level has run: the plugins' resources, the player spawn_player
\* makes and the colliders of the registry
Init ==
    /\ colliders = GameRegistry
    /\ translation = SpawnTranslation
    /\ controller = NewMovementController
    /\ paused = TRUE
    /\ dead = FALSE
    /\ total_distance = 0
    /\ current_level = 0
    /\ game_over = 0
    /\ schedule = WholeFrames
    /\ last = ControlHistory("init")
    /\ round_trip = FALSE

\* a PlayerAction event reaches do_player_action
DoPlayerAction(a) ==
    /\ controller' = do_player_action(controller, a)
    /\ last' = ControlHistory("action")
    /\ round_trip' = RoundTripAfterAction(a)
    /\ UNCHANGED <<translation, paused, dead, total_distance, current_level, colliders, game_over,
                   schedule>>

\* PlaySequence reaches resume
PlaySequence ==
    /\ paused' = IF dead THEN paused ELSE FALSE
    /\ last' = ControlHistory("play")
    /\ UNCHANGED round_trip
    /\ UNCHANGED <<translation, controller, dead, total_distance, current_level, colliders, game_over,
                   schedule>>

\* PauseSequence reaches pause
PauseSequence ==
    /\ paused' = TRUE
    /\ last' = ControlHistory("pause")
    /\ round_trip' = FALSE
    /\ UNCHANGED <<translation, controller, dead, total_distance, current_level, colliders, game_over,
                   schedule>>

\* ResetSequence reaches reset_sequence, which triggers SpawnPlayer and SpawnObstacles(0)
ResetSequence ==
    /\ current_level' = 0
    /\ dead' = FALSE
    /\ total_distance' = 0
    /\ translation' = SpawnTranslation
    /\ controller' = NewMovementController
    /\ colliders' = spawn_obstacles(colliders, 0)
    /\ game_over' = 0
    /\ last' = ControlHistory("reset")
    /\ round_trip' = FALSE
    /\ UNCHANGED <<paused, schedule>>

\* the region frames are followed in: the player's image has not wholly left the floor's
\* left end and has not fallen more than two boxes below the floor (a fall past the
\* floor never ends)
InModelledRegion(t) ==
    /\ t.x >= -((LEVEL_WIDTH + FLOOR_EXTRA_WIDTH) \div 2) - PLAYER_IMAGE_SIZE
    /\ t.y >= FLOOR_Y - (BOX_SIZE * 2)

\* an apply_movement that does not look at Paused
FrameMovedUngated(dt) == apply_movement(translation, controller, colliders, dt).translation

\* where apply_movement leaves the player in a frame of length dt
FrameMoved(dt) ==
    IF paused THEN translation
    ELSE apply_movement(translation, controller, colliders, dt).translation

\* the frames the model follows: those that start in the modelled region and do not
\* wrap past the last level the model visits
FrameAllowed(dt) ==
    /\ InModelledRegion(translation)
    /\ WrapCondition(FrameMoved(dt)) => current_level < MaxLevel

\* a displacement measured once wrap_within_level has moved the player back
DisplacementAfterWrap(start, moved) ==
    (IF WrapCondition(moved) THEN WrapX ELSE moved.x) - start.x

\* what apply_movement adds to TotalDistance: the translation's x once the "move
\* rightwards" block has run, minus original_x
Displacement(start, moved) == moved.x - start.x

\* a check_spike_collisions that reads the translation the frame started with
CheckedTranslationStale(start, moved) == start

\* the translation check_spike_collisions reads: chained after apply_movement, it
\* finds the one apply_movement left
CheckedTranslation(start, moved) == moved

\* one frame of the Update schedule: apply_movement, check_spike_collisions and
\* wrap_within_level in their chained order, each followed by the observers its
\* commands trigger (for every DeathEvent handle_death, which sets Dead, spawns a
\* GameOver entity and triggers PauseSequence, and pause; spawn_obstacles)
FrameStep(dt) ==
    LET m == apply_movement(translation, controller, colliders, dt)
        t1 == FrameMoved(dt)
        c1 == IF paused THEN controller ELSE m.controller
        deaths == IF paused \/ dead THEN 0
                  ELSE check_spike_collisions(colliders, 1,
                           PlayerEdges(CheckedTranslation(translation, t1)))
        wrap == WrapCondition(t1)
    IN  /\ controller' = c1
        /\ total_distance' = total_distance + Displacement(translation, t1)
        /\ dead' = (dead \/ deaths > 0)
        /\ paused' = (paused \/ deaths > 0)
        /\ game_over' = game_over + deaths
        /\ translation' = IF wrap THEN [t1 EXCEPT !.x = WrapX] ELSE t1
        /\ current_level' = IF wrap THEN current_level + 1 ELSE current_level
        /\ colliders' = IF wrap THEN spawn_obstacles(colliders, current_level + 1) ELSE colliders
        /\ last' = IF paused THEN ControlHistory("idle") ELSE TickHistory(m.h, m.v, controller)
        /\ round_trip' = RoundTripAfterFrame(translation', c1, paused')
        /\ UNCHANGED schedule

\* a frame the model follows
Frame(dt) == FrameAllowed(dt) /\ FrameStep(dt)

Next ==
    \/ \E a \in PlayerActions : DoPlayerAction(a)
    \/ PlaySequence
    \/ PauseSequence
    \/ ResetSequence
    \/ \E dt \in 0..MaxDt : Frame(dt)

Spec == Init /\ [][Next]_vars

-----------------------------------------------------------------------------
(* do_player_action on its own: an event tried on every controller. *)

\* the controllers the game can leave: the vertical velocity never exceeds
\* JUMP_VELOCITY, and is positive only while jumping
Controllers ==
    {c \in [speed : Speeds, jumping : BOOLEAN,
            vertical_velocity : (-MaxFall)..JUMP_VELOCITY] :
        ~c.jumping => c.vertical_velocity <= 0}

InitAction ==
    /\ colliders = GameRegistry
    /\ translation = SpawnTranslation
    /\ controller \in Controllers
    /\ paused \in BOOLEAN
    /\ dead = FALSE
    /\ total_distance = 0
    /\ current_level = 0
    /\ game_over = 0
    /\ schedule = WholeFrames
    /\ last = ControlHistory("init")
    /\ round_trip = FALSE

\* a PlayerAction event reaches do_player_action; the step records the event, the
\* player it found and whether the event before it, no tick in between, was the same
ObservePlayerAction(a) ==
    /\ controller' = do_player_action(controller, a)
    /\ last' = [op |-> "observed", a |-> a, controller |-> controller,
                translation |-> translation,
                repeat |-> (last.op = "observed" /\ last.a = a)]
    /\ round_trip' = RoundTripAfterAction(a)
    /\ UNCHANGED <<translation, paused, dead, total_distance, current_level, colliders, game_over,
                   schedule>>

NextAction == \E a \in PlayerActions : ObservePlayerAction(a)

SpecAction == InitAction /\ [][NextAction]_vars

-----------------------------------------------------------------------------
(* wrap_within_level on its own: frames of a player at the level's right end. *)

\* the player stands on the floor at the right end of any level, as a run leaves it
\* that walked to the right and wrapped with its image just past the boundary
InitWrap ==
    /\ current_level \in 0..MaxWrapLevel
    /\ colliders = spawn_obstacles(<<FloorCollider>>, current_level)
    /\ translation \in {[x |-> x, y |-> SpawnTranslation.y] :
                            x \in ((LEVEL_WIDTH \div 2) - 2)..((LEVEL_WIDTH \div 2) + 2)}
    /\ controller \in {[NewMovementController EXCEPT !.speed = v] : v \in Speeds}
    /\ paused \in BOOLEAN
    /\ dead = FALSE
    /\ total_distance = (translation.x - SpawnTranslation.x)
                            + (current_level * (LEVEL_WIDTH + PLAYER_IMAGE_SIZE + 1))
    /\ game_over = 0
    /\ schedule = WholeFrames
    /\ last = ControlHistory("init")
    /\ round_trip = FALSE

\* a frame at a level up to the last the runs reach
WrapFrame(dt) ==
    /\ InModelledRegion(translation)
    /\ current_level <= MaxWrapLevel
    /\ FrameStep(dt)

NextWrap == \E dt \in 0..MaxDt : WrapFrame(dt)

SpecWrap == InitWrap /\ [][NextWrap]_vars

-----------------------------------------------------------------------------
(* The ticks under a ceiling: the player is in the air around the box that level 2  *)
(* has over the middle of the floor, as a jump from the floor brings it there.      *)

\* the first level index whose layout has a collider in the air
CeilingLevel == 2

\* the player at t is inside no collider of reg and touches no hazard
ClearOfColliders(t, reg) ==
    /\ \A i \in 1..Len(reg) :
          LET o == ColliderEdges(reg[i])
              p == PlayerEdges(t)
          IN  ~(p.left < o.right /\ p.right > o.left /\ p.bottom < o.top /\ p.top > o.bottom)
    /\ check_spike_collisions(reg, 1, PlayerEdges(t)) = 0

InitCeiling ==
    /\ current_level = CeilingLevel
    /\ colliders = spawn_obstacles(<<FloorCollider>>, current_level)
    /\ translation \in
          {t \in [x : (-(BOX_SIZE * 2))..(BOX_SIZE * 2),
                  y : SpawnTranslation.y..(SpawnTranslation.y + (BOX_SIZE * 2))] :
              ClearOfColliders(t, colliders)}
    /\ controller \in
          {c \in Controllers : c.jumping /\ c.speed >= 0 /\ c.vertical_velocity >= 0}
    /\ paused = FALSE
    /\ dead = FALSE
    /\ total_distance = (translation.x - SpawnTranslation.x)
                          + current_level * (LEVEL_WIDTH + PLAYER_IMAGE_SIZE + 1)
    /\ game_over = 0
    /\ schedule = WholeFrames
    /\ last = ControlHistory("init")
    /\ round_trip = FALSE

\* the events play_beat triggers, and the frames
NextCeiling ==
    \/ \E r \in SequencerRows : DoPlayerAction(to_player_action(r))
    \/ \E dt \in 0..MaxDt : Frame(dt)

SpecCeiling == InitCeiling /\ [][NextCeiling]_vars

-----------------------------------------------------------------------------
(* Runs along the floor that reach the right end of a level, are moved back to its  *)
(* left end and go on, with the resets of the sequence.                             *)

NextDistance ==
    \/ \E v \in Speeds : DoPlayerAction(SetSpeed(v))
    \/ PlaySequence
    \/ PauseSequence
    \/ ResetSequence
    \/ \E dt \in 0..MaxDt : WrapFrame(dt)

SpecDistance == InitWrap /\ [][NextDistance]_vars

-----------------------------------------------------------------------------
(* One tick of a player in the air among the colliders of each level, for the order *)
(* in which collider_query yields them.                                             *)

InitOrder ==
    /\ current_level \in 0..(TOTAL_LEVELS - 1)
    /\ colliders = spawn_obstacles(<<FloorCollider>>, current_level)
    /\ translation \in
          {t \in [x : (-(BOX_SIZE * 3))..(BOX_SIZE * 2),
                  y : SpawnTranslation.y..(SpawnTranslation.y + (BOX_SIZE * 3))] :
              ClearOfColliders(t, colliders)}
    /\ controller \in
          {c \in Controllers : c.jumping /\ c.speed >= 0 /\ c.vertical_velocity >= -GRAVITY}
    /\ paused = FALSE
    /\ dead = FALSE
    /\ total_distance = (translation.x - SpawnTranslation.x)
                          + current_level * (LEVEL_WIDTH + PLAYER_IMAGE_SIZE + 1)
    /\ game_over = 0
    /\ schedule = WholeFrames
    /\ last = ControlHistory("init")
    /\ round_trip = FALSE

\* the tick of the drawn state
NextOrder == \E dt \in 0..MaxDt : (last.op = "init" /\ Frame(dt))

SpecOrder == InitOrder /\ [][NextOrder]_vars

-----------------------------------------------------------------------------
(* apply_movement with no collider for its collider_query to yield.                 *)

InitFree ==
    /\ colliders = <<>>
    /\ translation \in [x : SpawnTranslation.x..(SpawnTranslation.x + 1),
                         y : SpawnTranslation.y..(SpawnTranslation.y + 1)]
    /\ controller \in Controllers
    /\ paused \in BOOLEAN
    /\ dead = FALSE
    /\ total_distance = 0
    /\ current_level = 0
    /\ game_over = 0
    /\ schedule = WholeFrames
    /\ last = ControlHistory("init")
    /\ round_trip = FALSE

NextFree ==
    \/ \E a \in PlayerActions : DoPlayerAction(a)
    \/ \E dt \in 0..MaxDt : Frame(dt)

SpecFree == InitFree /\ [][NextFree]_vars

-----------------------------------------------------------------------------
(* The Update schedule system by system: when the commands the systems queue are    *)
(* applied, and with them the observers of the events they trigger.                 *)

\* the events commands.trigger queues
PlaySequenceEvent == [ev |-> "PlaySequence"]
PauseSequenceEvent == [ev |-> "PauseSequence"]
ResetSequenceEvent == [ev |-> "ResetSequence"]
PlayBeatEvent(b) == [ev |-> "PlayBeat", beat |-> b]
DeathEvent == [ev |-> "DeathEvent"]
PlayerActionEvent(a) == [ev |-> "PlayerAction", a |-> a]
SpawnObstaclesEvent(n) == [ev |-> "SpawnObstacles", n |-> n]
SetBeatButtonsEnabledEvent(v) == [ev |-> "SetBeatButtonsEnabled", v |-> v]

\* the nodes of a frame, in the order the schedule runs them: update_sequence_timer
\* (set TickTimers, taken to come before the set Update as the set names say; the
\* configuration of the sets is in the crate root), a sync point, the chain apply_movement, check_spike_collisions,
\* a sync point (check_spike_collisions has Commands), wrap_within_level, and the
\* schedule's last sync point.  handle_game_action is in no set and has no ordering:
\* it runs once, anywhere among them
ScheduleNodes == <<"timer", "sync", "move", "spikes", "sync", "wrap", "sync">>

\* the world a sync point works on
World ==
    [translation |-> translation, controller |-> controller, paused |-> paused, dead |-> dead,
     total_distance |-> total_distance, current_level |-> current_level,
     colliders |-> colliders, game_over |-> game_over,
     timer_paused |-> schedule.timer_paused, timer_zero |-> schedule.timer_zero,
     beat |-> schedule.beat, enabled |-> schedule.enabled,
     applied |-> 0, resets |-> 0, played |-> <<>>]

\* a reset_sequence that leaves Dead as it is
reset_sequence_KeepsDead(w) ==
    [w EXCEPT !.beat = 0, !.timer_paused = TRUE, !.timer_zero = TRUE,
              !.current_level = 0, !.total_distance = 0,
              !.game_over = 0, !.resets = @ + 1]

\* reset_sequence: the beat and its timer, the GameOver entities, CurrentLevel, Dead
\* and TotalDistance; the SpawnPlayer and SpawnObstacles(0) it triggers come next
reset_sequence(w) ==
    [w EXCEPT !.beat = 0, !.timer_paused = TRUE, !.timer_zero = TRUE,
              !.current_level = 0, !.dead = FALSE, !.total_distance = 0,
              !.game_over = 0, !.resets = @ + 1]

\* spawn_player: the players there are despawned, a new one is spawned
spawn_player(w) ==
    [w EXCEPT !.translation = SpawnTranslation, !.controller = NewMovementController]

\* a resume without the guard on Dead
resume_Unguarded(w) == [w EXCEPT !.paused = FALSE]

\* resume, the observer of PlaySequence in movement.rs
resume(w) == IF w.dead THEN w ELSE [w EXCEPT !.paused = FALSE]

\* play_sequence: the beat timer; the PlayBeat it triggers comes next
play_sequence(w) == IF w.dead THEN w ELSE [w EXCEPT !.timer_paused = FALSE]

\* handle_death: Dead and the GameOver root; the PauseSequence it triggers comes next
handle_death(w) == [w EXCEPT !.dead = TRUE, !.game_over = @ + 1]

\* pause and pause_sequence, the observers of PauseSequence
pause(w) == [w EXCEPT !.paused = TRUE]
pause_sequence(w) == [w EXCEPT !.timer_paused = TRUE]

\* a sync point: the queued commands are applied in order; each trigger runs its
\* observers, and the events those trigger in turn come before the rest of the queue.
\* rows is the Sequence: for each beat its rows, in the order the HashSet yields them
RECURSIVE Flush(_, _, _)
Flush(w, queue, rows) ==
    IF queue = <<>> THEN w
    ELSE LET e == Head(queue)
             rest == Tail(queue)
         IN  CASE e.ev = "PlaySequence" ->
                    \* resume and play_sequence
                    Flush(play_sequence(resume(w)),
                          (IF ~w.dead /\ w.timer_zero THEN <<PlayBeatEvent(0)>> ELSE <<>>)
                              \o (IF ~w.dead THEN <<SetBeatButtonsEnabledEvent(FALSE)>>
                                  ELSE <<>>)
                              \o rest, rows)
               [] e.ev = "PauseSequence" ->
                    \* pause and pause_sequence
                    Flush(pause_sequence(pause(w)), rest, rows)
               [] e.ev = "ResetSequence" ->
                    \* reset_sequence, then spawn_player and spawn_obstacles
                    Flush(spawn_player(reset_sequence(w)),
                          <<SpawnObstaclesEvent(0), SetBeatButtonsEnabledEvent(TRUE)>>
                              \o rest, rows)
               [] e.ev = "PlayBeat" ->
                    \* play_beat
                    Flush([w EXCEPT !.played = Append(@, [beat |-> e.beat, at |-> w.beat])],
                          [i \in 1..Len(rows[e.beat + 1]) |->
                              PlayerActionEvent(to_player_action(rows[e.beat + 1][i]))]
                              \o rest, rows)
               [] e.ev = "PlayerAction" ->
                    Flush([w EXCEPT !.controller = do_player_action(@, e.a),
                                    !.applied = @ + 1], rest, rows)
               [] e.ev = "DeathEvent" ->
                    \* handle_death
                    Flush(handle_death(w),
                          <<PauseSequenceEvent, SetBeatButtonsEnabledEvent(FALSE)>>
                              \o rest, rows)
               [] e.ev = "SpawnObstacles" ->
                    Flush([w EXCEPT !.colliders = spawn_obstacles(@, e.n)], rest, rows)
               [] e.ev = "SetBeatButtonsEnabled" ->
                    \* set_beat_buttons_enabled
                    Flush([w EXCEPT !.enabled = e.v], rest, rows)

\* the Sequences the frames are followed with: the rows active on the beats played
Sequences == {<<>>, <<Kick>>, <<SynthNote(1), Kick>>}

InitSchedule ==
    /\ colliders = GameRegistry
    /\ translation = SpawnTranslation
    /\ controller = NewMovementController
    /\ paused = TRUE
    /\ dead = FALSE
    /\ total_distance = 0
    /\ current_level = 0
    /\ game_over = 0
    /\ schedule \in {[WholeFrames EXCEPT !.rows = EveryBeat(r),
                                          !.active = ButtonsOf(EveryBeat(r))] :
                         r \in Sequences}
    /\ last = ControlHistory("init")
    /\ round_trip = FALSE

\* the node the chain runs next
NextNode == ScheduleNodes[schedule.node + 1]

\* update_sequence_timer: the running timer ticks and, when it has finished a beat,
\* advances the beat and triggers PlayBeat of it.  The elapsed time of a running timer
\* is zero after the tick when the tick finished the beat with nothing left over, or
\* found it zero and was of no length
RunSequenceTimer ==
    /\ NextNode = "timer"
    /\ \E finished, zero \in BOOLEAN :
          /\ finished => ~schedule.timer_paused
          /\ zero => (~schedule.timer_paused /\ (finished \/ schedule.timer_zero))
          /\ schedule' = [schedule EXCEPT
                !.node = @ + 1,
                !.timer_zero = IF schedule.timer_paused THEN @ ELSE zero,
                !.beat = IF finished THEN (@ + 1) % NUM_BEATS_IN_SEQUENCE ELSE @,
                !.queue = IF finished
                          THEN Append(@, PlayBeatEvent((schedule.beat + 1) % NUM_BEATS_IN_SEQUENCE))
                          ELSE @]
    /\ last' = ControlHistory("timer")
    /\ UNCHANGED <<translation, controller, paused, dead, total_distance, current_level,
                   colliders, game_over, round_trip>>

\* the buttons handle_game_action can find pressed in a frame
GameActions == {"None", "Play", "Pause", "Stop"}

\* handle_game_action: triggers the event of the pressed button.  It runs once in a
\* frame, at a place the schedule does not fix
RunGameAction(button) ==
    /\ ~schedule.input
    /\ schedule.frames < MaxFrames
    /\ schedule' = [schedule EXCEPT
          !.input = TRUE,
          !.queue = CASE button = "Play" -> Append(@, PlaySequenceEvent)
                      [] button = "Pause" -> Append(@, PauseSequenceEvent)
                      [] button = "Stop" -> Append(@, ResetSequenceEvent)
                      [] OTHER -> @]
    /\ last' = ControlHistory("input")
    /\ UNCHANGED <<translation, controller, paused, dead, total_distance, current_level,
                   colliders, game_over, round_trip>>

\* apply_movement as a system of the chain
RunApplyMovement(dt) ==
    /\ NextNode = "move"
    /\ InModelledRegion(translation)
    /\ LET m == apply_movement(translation, controller, colliders, dt)
       IN  /\ translation' = FrameMoved(dt)
           /\ controller' = IF paused THEN controller ELSE m.controller
           /\ total_distance' = total_distance + Displacement(translation, FrameMoved(dt))
           /\ last' = IF paused THEN ControlHistory("idle") ELSE TickHistory(m.h, m.v, controller)
    /\ schedule' = [schedule EXCEPT !.node = @ + 1, !.resolved = ~paused]
    /\ UNCHANGED <<paused, dead, current_level, colliders, game_over, round_trip>>

\* check_spike_collisions as a system of the chain: its DeathEvents are queued
RunCheckSpikeCollisions ==
    /\ NextNode = "spikes"
    /\ LET deaths == IF paused \/ dead THEN 0
                     ELSE check_spike_collisions(colliders, 1, PlayerEdges(translation))
       IN  schedule' = [schedule EXCEPT
                          !.node = @ + 1,
                          !.queue = @ \o [i \in 1..deaths |-> DeathEvent]]
    /\ last' = ControlHistory("spikes")
    /\ UNCHANGED <<translation, controller, paused, dead, total_distance, current_level,
                   colliders, game_over, round_trip>>

\* wrap_within_level as a system of the chain: SpawnObstacles is queued
RunWrapWithinLevel ==
    /\ NextNode = "wrap"
    /\ LET wrap == WrapCondition(translation)
       IN  /\ translation' = IF wrap THEN [translation EXCEPT !.x = WrapX] ELSE translation
           /\ current_level' = IF wrap THEN current_level + 1 ELSE current_level
           /\ schedule' = [schedule EXCEPT
                !.node = @ + 1,
                !.queue = IF wrap THEN Append(@, SpawnObstaclesEvent(current_level + 1)) ELSE @]
    /\ last' = ControlHistory("wrap")
    /\ UNCHANGED <<controller, paused, dead, total_distance, colliders, game_over, round_trip>>

\* what a sync point leaves in last: the node it is, the PlayerActions it applied, and
\* whether apply_movement has already moved the player in this frame
FlushHistory(node, applied, resolved) ==
    [op |-> "flush", node |-> node, applied |-> applied, resolved |-> resolved]

\* a sync point of the schedule; the last one needs every system of the frame to have
\* run, and ends the frame
RunSync ==
    /\ NextNode = "sync"
    /\ schedule.node + 1 = Len(ScheduleNodes) => schedule.input
    /\ LET w == Flush(World, schedule.queue, schedule.rows)
           ends == (schedule.node + 1 = Len(ScheduleNodes))
       IN  /\ translation' = w.translation
           /\ controller' = w.controller
           /\ paused' = w.paused
           /\ dead' = w.dead
           /\ total_distance' = w.total_distance
           /\ current_level' = w.current_level
           /\ colliders' = w.colliders
           /\ game_over' = w.game_over
           /\ schedule' = [schedule EXCEPT
                !.node = IF ends THEN 0 ELSE @ + 1,
                !.input = IF ends THEN FALSE ELSE @,
                !.queue = <<>>,
                !.timer_paused = w.timer_paused,
                !.timer_zero = w.timer_zero,
                !.beat = w.beat,
                !.enabled = w.enabled,
                !.frames = IF ends THEN @ + 1 ELSE @,
                !.resolved = IF ends THEN FALSE ELSE @]
           /\ last' = FlushHistory(schedule.node, w.applied, schedule.resolved)
                         @@ [resets |-> w.resets, played |-> w.played,
                             found |-> [dead |-> dead, level |-> current_level,
                                        queue |-> schedule.queue]]
    /\ UNCHANGED round_trip

NextSchedule ==
    \/ RunSequenceTimer
    \/ \E button \in GameActions : RunGameAction(button)
    \/ \E dt \in 0..MaxDt : RunApplyMovement(dt)
    \/ RunCheckSpikeCollisions
    \/ RunWrapWithinLevel
    \/ RunSync

SpecSchedule == InitSchedule /\ [][NextSchedule]_vars

\* one frame, system by system, of a run in progress: in the first or the last level,
\* at the spawn, where the wrap puts the player, in the air or on the box of level 0
\* a step short of its spikes, playing, paused or dead, the beat timer running or not
InitReset ==
    /\ current_level \in {0, TOTAL_LEVELS - 1}
    /\ colliders = spawn_obstacles(<<FloorCollider>>, current_level)
    /\ translation \in
          {t \in {SpawnTranslation,
                  [x |-> WrapX, y |-> SpawnTranslation.y],
                  [x |-> WrapX + 1, y |-> SpawnTranslation.y + BOX_SIZE],
                  [x |-> -BOX_SIZE, y |-> SpawnTranslation.y + BOX_SIZE]} :
              ClearOfColliders(t, colliders)}
    /\ controller \in
          {c \in Controllers :
              /\ c.jumping <=> translation.y # SpawnTranslation.y
              /\ c.vertical_velocity \in {JUMP_VELOCITY, 0}}
    /\ dead \in BOOLEAN
    /\ paused \in (IF dead THEN {TRUE} ELSE BOOLEAN)
    /\ game_over = (IF dead THEN 1 ELSE 0)
    /\ total_distance \in {0, LEVEL_WIDTH}
    /\ schedule \in
          {[WholeFrames EXCEPT !.rows = EveryBeat(<<Kick>>),
                               !.active = ButtonsOf(EveryBeat(<<Kick>>)),
                               !.enabled = FALSE,
                               !.timer_paused = tp, !.timer_zero = tz,
                               !.beat = b, !.frames = MaxFrames - 1] :
              tp \in {paused, TRUE}, tz \in BOOLEAN, b \in 0..(NUM_BEATS_IN_SEQUENCE - 1)}
    /\ last = ControlHistory("init")
    /\ round_trip = FALSE

SpecReset == InitReset /\ [][NextSchedule]_vars

-----------------------------------------------------------------------------
(* The wrap among the systems of the frame: wrap_within_level writes CurrentLevel   *)
(* at once and queues SpawnObstacles for the next sync point.                       *)

\* two frames, system by system, of a run with the player on the floor at the right
\* end of a level, the sequence playing or paused
InitLevels ==
    /\ current_level \in 0..MaxWrapLevel
    /\ colliders = spawn_obstacles(<<FloorCollider>>, current_level)
    /\ translation \in {[x |-> x, y |-> SpawnTranslation.y] :
                            x \in ((LEVEL_WIDTH \div 2) - 2)..((LEVEL_WIDTH \div 2) + 2)}
    /\ controller \in {[NewMovementController EXCEPT !.speed = v] : v \in Speeds}
    /\ paused \in BOOLEAN
    /\ dead = FALSE
    /\ total_distance = (translation.x - SpawnTranslation.x)
                            + (current_level * (LEVEL_WIDTH + PLAYER_IMAGE_SIZE + 1))
    /\ game_over = 0
    /\ schedule = [WholeFrames EXCEPT !.enabled = FALSE, !.timer_paused = paused,
                                      !.timer_zero = FALSE, !.frames = MaxFrames - 2]
    /\ last = ControlHistory("init")
    /\ round_trip = FALSE

SpecLevels == InitLevels /\ [][NextSchedule]_vars

-----------------------------------------------------------------------------
(* The beat buttons: handle_sequencer_action among the systems of the frame.        *)

\* the sequence r with x put in after its first k elements
InsertAt(r, k, x) == SubSeq(r, 1, k) \o <<x>> \o SubSeq(r, k + 1, Len(r))

\* the rows of the sequence r, a HashSet in its iteration order, as a set
Rows(r) == {r[i] : i \in 1..Len(r)}

\* the sequence r without x
Without(r, x) == SelectSeq(r, LAMBDA y : y # x)

\* a handle_sequencer_action that does not look at Enabled
handle_sequencer_action_Ungated(sch, button, k) ==
    LET b == button.beat + 1
    IN  IF button \notin sch.active
        THEN [sch EXCEPT !.active = @ \cup {button},
                         !.rows[b] = IF button.row \in Rows(@) THEN @
                                     ELSE InsertAt(@, k, button.row)]
        ELSE [sch EXCEPT !.active = @ \ {button},
                         !.rows[b] = Without(@, button.row)]

\* a handle_sequencer_action that leaves the row of a button toggled off in the Sequence
handle_sequencer_action_KeepsRow(sch, button, k) ==
    LET b == button.beat + 1
    IN  IF ~sch.enabled THEN sch
        ELSE IF button \notin sch.active
        THEN [sch EXCEPT !.active = @ \cup {button},
                         !.rows[b] = IF button.row \in Rows(@) THEN @
                                     ELSE InsertAt(@, k, button.row)]
        ELSE [sch EXCEPT !.active = @ \ {button}]

\* handle_sequencer_action for a pressed BeatButton: nothing when the button is not
\* enabled; else the button is toggled and its row inserted into or removed from the
\* HashSet of its beat (k: where the HashSet then yields the inserted row)
handle_sequencer_action(sch, button, k) ==
    LET b == button.beat + 1
    IN  IF ~sch.enabled THEN sch
        ELSE IF button \notin sch.active
        THEN [sch EXCEPT !.active = @ \cup {button},
                         !.rows[b] = IF button.row \in Rows(@) THEN @
                                     ELSE InsertAt(@, k, button.row)]
        ELSE [sch EXCEPT !.active = @ \ {button},
                         !.rows[b] = Without(@, button.row)]

\* the BeatButtons pressed in the frames followed
EditedButtons ==
    {[row |-> r, beat |-> b] : r \in {Kick, HiHat}, b \in 0..(NUM_BEATS_IN_SEQUENCE - 1)}

\* handle_sequencer_action as a system: it finds a BeatButton pressed.  The pointer
\* presses one button in a frame, a beat button or one of handle_game_action's
RunSequencerAction(button) ==
    /\ ~schedule.input
    /\ schedule.frames < MaxFrames
    /\ \E k \in 0..Len(schedule.rows[button.beat + 1]) :
          schedule' = [handle_sequencer_action(schedule, button, k) EXCEPT !.input = TRUE]
    /\ last' = [op |-> "press", button |-> button, enabled |-> schedule.enabled]
    /\ UNCHANGED <<translation, controller, paused, dead, total_distance, current_level,
                   colliders, game_over, round_trip>>

\* the game before the first PlaySequence, and a run in progress with the player on
\* the box of level 0 a step short of its spikes, each with one of Sequences made
InitEdit ==
    /\ colliders = GameRegistry
    /\ paused \in BOOLEAN
    /\ translation = IF paused THEN SpawnTranslation
                     ELSE [x |-> -BOX_SIZE, y |-> SpawnTranslation.y + BOX_SIZE]
    /\ controller = IF paused THEN NewMovementController
                    ELSE [NewMovementController EXCEPT !.speed = SPEED_MULTIPLIER]
    /\ dead = FALSE
    /\ total_distance = 0
    /\ current_level = 0
    /\ game_over = 0
    /\ schedule \in {[WholeFrames EXCEPT !.rows = EveryBeat(r),
                                          !.active = ButtonsOf(EveryBeat(r)),
                                          !.enabled = paused,
                                          !.timer_paused = paused,
                                          !.timer_zero = paused] : r \in Sequences}
    /\ last = ControlHistory("init")
    /\ round_trip = FALSE

NextEdit ==
    \/ NextSchedule
    \/ \E button \in EditedButtons : RunSequencerAction(button)

SpecEdit == InitEdit /\ [][NextEdit]_vars

-----------------------------------------------------------------------------
(* play_beat on its own: the rows of one beat, in an order the HashSet may yield,   *)
(* dispatched to every controller.                                                  *)

\* the orders a HashSet of SequencerRows can be iterated in: the sequences of rows
\* without repetition
RowOrders ==
    {r \in UNION {[1..n -> SequencerRows] : n \in 0..Cardinality(SequencerRows)} :
        \A i, j \in 1..Len(r) : i # j => r[i] # r[j]}

\* the controller play_beat leaves when the rows come in the order rows
BeatDispatched(c, rows) ==
    Flush([World EXCEPT !.controller = c], <<PlayBeatEvent(0)>>, EveryBeat(rows)).controller

InitBeat ==
    /\ colliders = GameRegistry
    /\ translation = SpawnTranslation
    /\ controller \in Controllers
    /\ paused = FALSE
    /\ dead = FALSE
    /\ total_distance = 0
    /\ current_level = 0
    /\ game_over = 0
    /\ schedule \in {[WholeFrames EXCEPT !.rows = EveryBeat(r),
                                          !.active = ButtonsOf(EveryBeat(r)),
                                          !.enabled = FALSE,
                                          !.timer_paused = FALSE,
                                          !.timer_zero = FALSE] : r \in RowOrders}
    /\ last = ControlHistory("init")
    /\ round_trip = FALSE

\* a PlayBeat of beat 0
PlayBeat ==
    /\ controller' = BeatDispatched(controller, schedule.rows[1])
    /\ last' = ControlHistory("beat")
    /\ UNCHANGED <<translation, paused, dead, total_distance, current_level, colliders,
                   game_over, schedule, round_trip>>

NextBeat == PlayBeat

SpecBeat == InitBeat /\ [][NextBeat]_vars

\* this step is a frame of length dt in which apply_movement ran
TickStep(dt) == last'.op = "tick" /\ ~paused /\ Frame(dt)

\* what apply_movement computes in a tick of length dt from the state the step starts in
Tick(dt) == apply_movement(translation, controller, colliders, dt)

\* the bottom edge of the player at t is on the top edge of a collider of reg
\* that horizontally overlaps the player
OnTopOfCollider(t, reg) ==
    \E i \in 1..Len(reg) :
        LET o == ColliderEdges(reg[i])
            p == PlayerEdges(t)
        IN  /\ Abs(p.bottom - o.top) <= EPSILON
            /\ ~(p.left > o.right \/ p.right < o.left)

\* the left edges of the colliders of reg that vertically overlap the player at t
\* and lie at or to the right of the player's right edge
WallsAhead(t, reg) ==
    {ColliderEdges(reg[i]).left : i \in
        {j \in 1..Len(reg) :
            LET o == ColliderEdges(reg[j])
                p == PlayerEdges(t)
            IN  /\ ~(p.bottom > o.top \/ p.top < o.bottom)
                /\ o.left >= p.right}}

SetMin(S) == CHOOSE x \in S : \A y \in S : x <= y

\* rectangles with edges a and b overlap vertically / horizontally (touching counts)
VerticallyOverlapping(a, b) == ~(a.bottom > b.top \/ a.top < b.bottom)
HorizontallyOverlapping(a, b) == ~(a.left > b.right \/ a.right < b.left)

\* side contact: the hazard's left edge is on the player's right edge and the two
\* overlap vertically
SideContact(p, o) == Abs(o.left - p.right) <= EPSILON /\ VerticallyOverlapping(p, o)

\* top / bottom contact: the player's bottom is on the hazard's top, or the hazard's
\* bottom on the player's top, and the two overlap horizontally
TopBottomContact(p, o) ==
    /\ (Abs(p.bottom - o.top) <= EPSILON \/ Abs(o.bottom - p.top) <= EPSILON)
    /\ HorizontallyOverlapping(p, o)

\* the Spikes colliders of reg
Hazards(reg) == {i \in 1..Len(reg) : reg[i].spikes}

-----------------------------------------------------------------------------
(* Properties of the resolver tick. *)

\* C1: after every tick of apply_movement the controller that is not jumping has
\* vertical velocity 0
C1_NotJumpingHasNoVelocity ==
    [][last'.op = "tick"
          => (~controller'.jumping => controller'.vertical_velocity = 0)]_vars

\* C2: after every unpaused tick (already of those of positive length) the controller
\* is not jumping exactly when the player's bottom edge is on the top edge of a
\* collider that horizontally overlaps the player
C2_NotJumpingIffOnTop ==
    [][\A dt \in 1..MaxDt :
          TickStep(dt)
              => (~controller'.jumping <=> OnTopOfCollider(translation', colliders'))]_vars

\* C3: a tick that begins with vertical velocity <= 0 and finds a floor never ends
\* with the bottom edge below the floor's top; if it ends on the floor's top the
\* vertical velocity is 0 and the controller is not jumping, otherwise the vertical
\* velocity has decreased by GRAVITY * dt and the controller is jumping
C3_FallingTick ==
    [][\A dt \in 0..MaxDt :
          (TickStep(dt) /\ controller.vertical_velocity <= 0 /\ Tick(dt).closest # None)
              => LET floor == Tick(dt).closest[1]
                     bottom == PlayerEdges(translation').bottom
                 IN  /\ bottom >= floor
                     /\ IF Abs(bottom - floor) <= EPSILON
                        THEN controller'.vertical_velocity = 0 /\ ~controller'.jumping
                        ELSE /\ controller'.vertical_velocity
                                  = controller.vertical_velocity - (GRAVITY * dt)
                             /\ controller'.jumping]_vars

\* C4: a tick that starts with a collider vertically overlapping the player at or to
\* the right of its right edge leaves x at the smaller of x + speed * dt and the x at
\* which the right edge is on the nearest such collider's left edge, and the right
\* edge never passes that left edge
C4_WallClamp ==
    [][\A dt \in 0..MaxDt :
          (TickStep(dt) /\ WallsAhead(translation, colliders) # {})
              => LET wall == SetMin(WallsAhead(translation, colliders))
                     max_x == wall - Player.collider_offset.x - (Player.collider.x \div 2)
                 IN  /\ translation'.x = Min(translation.x + (controller.speed * dt), max_x)
                     /\ PlayerEdges(translation').right <= wall]_vars

\* C5: the vertical pass of a tick works with the left and right edges the player
\* has after the horizontal pass: the tick ends as the vertical pass over the floor
\* or ceiling found under those edges ends
C5_VerticalAfterHorizontal ==
    [][\A dt \in 0..MaxDt :
          TickStep(dt)
              => LET p == PlayerEdges(translation)
                     moved == PlayerEdges([translation EXCEPT !.x = Tick(dt).translation.x])
                     closest == ClosestFloorOrCeiling(colliders, 1,
                                    [p EXCEPT !.left = moved.left, !.right = moved.right],
                                    controller.vertical_velocity, None)
                     v == VerticalPass(translation, controller, p, closest, dt)
                 IN  /\ translation'.y = v.y
                     /\ controller'.vertical_velocity = v.vertical_velocity
                     /\ controller'.jumping = v.jumping]_vars

\* C6: for a collider thicker than the distance the tick can carry the player
\* (speed * dt), a tick that starts with the player's right edge at or left of the
\* collider's left edge does not end with the right edge beyond that left edge
\* while the player is at the collider's height, that is, inside the collider (a
\* player that passes above or below the collider is not held against the claim)
C6_NoTunneling ==
    [][\A dt \in 0..MaxDt :
          TickStep(dt)
              => \A i \in 1..Len(colliders) :
                    LET o == ColliderEdges(colliders[i])
                        p == PlayerEdges(translation)
                        q == PlayerEdges(translation')
                    IN  (/\ p.right <= o.left
                         /\ o.right - o.left > Abs(controller.speed) * dt)
                            => ~(q.right > o.left /\ q.bottom < o.top /\ q.top > o.bottom)]_vars

\* no tick of positive length changes the player's translation or controller
NoTickMoves ==
    \A dt \in 1..MaxDt :
        Tick(dt).translation = translation /\ Tick(dt).controller = controller

\* C7: a jump from rest on the floor, with ticks of positive length going on, no Float
\* or Dive, and the floor staying the highest collider under the player, comes back to
\* rest on the floor's top: the round trip is never in a state that every tick leaves
\* as it is, short of that landing
C7_JumpThenLand == ~(round_trip /\ NoTickMoves)

\* C8: once a tick has ended, in its landing or its resting branch, with the player's
\* bottom edge on the top edge of a collider under it, the next tick, no event having
\* come in between, leaves the vertical velocity 0 and the controller not jumping
C8_LandingIdempotence ==
    [][(/\ last.op = "tick"
        /\ last.v \in {"land", "rest"}
        /\ OnTopOfCollider(translation, colliders)
        /\ last'.op = "tick")
          => (controller'.vertical_velocity = 0 /\ ~controller'.jumping)]_vars

-----------------------------------------------------------------------------
(* Properties of do_player_action. *)

\* C9: a Jump event on a controller that is not jumping sets jumping and sets the
\* vertical velocity to JUMP_VELOCITY; on a jumping controller it changes nothing;
\* either way the speed and the translation stay as they are
C9_JumpOnlyWhenGrounded ==
    (last.op = "observed" /\ last.a = Jump)
        => /\ translation = last.translation
           /\ IF ~last.controller.jumping
              THEN controller = [speed |-> last.controller.speed, jumping |-> TRUE,
                                 vertical_velocity |-> JUMP_VELOCITY]
              ELSE controller = last.controller

\* a Jump event has just reached a controller that was jumping with a vertical
\* velocity other than JUMP_VELOCITY
C9_JumpWhileAirborne ==
    /\ last.op = "observed"
    /\ last.a = Jump
    /\ last.controller.jumping
    /\ last.controller.vertical_velocity # JUMP_VELOCITY

\* C10: a Float event leaves the vertical velocity at most max(previous, FLOAT_LIMIT);
\* a Dive event leaves it at least min(previous, DIVE_LIMIT)
C10_FloatDiveClamp ==
    /\ (last.op = "observed" /\ last.a = Float)
          => controller.vertical_velocity
                <= Max(last.controller.vertical_velocity, FLOAT_LIMIT)
    /\ (last.op = "observed" /\ last.a = Dive)
          => controller.vertical_velocity
                >= Min(last.controller.vertical_velocity, DIVE_LIMIT)

\* a Float event has just reached a jumping controller that was falling faster than
\* FLOAT_LIMIT, by less than FLOAT_VELOCITY more
C10_FloatClamped ==
    /\ last.op = "observed"
    /\ last.a = Float
    /\ last.controller.jumping
    /\ last.controller.vertical_velocity < FLOAT_LIMIT
    /\ last.controller.vertical_velocity + FLOAT_VELOCITY > FLOAT_LIMIT

\* C11: a Float event changes nothing on a controller that is not jumping or whose
\* vertical velocity is at or above FLOAT_LIMIT; a Dive event changes nothing on a
\* controller that is not jumping or whose vertical velocity is at or below DIVE_LIMIT;
\* neither event ever changes the speed, the jumping flag or the translation
C11_FloatDiveNoEffect ==
    (last.op = "observed" /\ last.a \in {Float, Dive})
        => /\ controller.speed = last.controller.speed
           /\ controller.jumping = last.controller.jumping
           /\ translation = last.translation
           /\ (/\ last.a = Float
               /\ (~last.controller.jumping \/ last.controller.vertical_velocity >= FLOAT_LIMIT))
                  => controller = last.controller
           /\ (/\ last.a = Dive
               /\ (~last.controller.jumping \/ last.controller.vertical_velocity <= DIVE_LIMIT))
                  => controller = last.controller

\* a Dive event has just reached a jumping controller that was already falling faster
\* than DIVE_LIMIT
C11_DivePastLimit ==
    /\ last.op = "observed"
    /\ last.a = Dive
    /\ last.controller.jumping
    /\ last.controller.vertical_velocity < DIVE_LIMIT

\* C12 as stated: an event that repeats the event before it, no tick in between,
\* leaves the controller as the first left it
C12_EveryActionIdempotent ==
    (last.op = "observed" /\ last.repeat) => controller = last.controller

\* C12: a repeated SetSpeed(v) or Jump leaves the controller as the first left it; a
\* repeated Float or Dive does so exactly when the first left the controller not
\* jumping or with the vertical velocity at or beyond the event's limit, and otherwise
\* moves the vertical velocity once more towards the limit, never past it
C12_RepeatedAction ==
    (last.op = "observed" /\ last.repeat)
        => LET before == last.controller
           IN  /\ last.a.type \in {"SetSpeed", "Jump"} => controller = before
               /\ last.a = Float
                    => IF ~before.jumping \/ before.vertical_velocity >= FLOAT_LIMIT
                       THEN controller = before
                       ELSE /\ controller.vertical_velocity > before.vertical_velocity
                            /\ controller.vertical_velocity <= FLOAT_LIMIT
               /\ last.a = Dive
                    => IF ~before.jumping \/ before.vertical_velocity <= DIVE_LIMIT
                       THEN controller = before
                       ELSE /\ controller.vertical_velocity < before.vertical_velocity
                            /\ controller.vertical_velocity >= DIVE_LIMIT

\* a second Float has just followed a first that left the vertical velocity short of
\* FLOAT_LIMIT
C12_SecondFloatActs ==
    /\ last.op = "observed"
    /\ last.repeat
    /\ last.a = Float
    /\ last.controller.jumping
    /\ last.controller.vertical_velocity < FLOAT_LIMIT

-----------------------------------------------------------------------------
(* Properties of check_spike_collisions. *)

\* C13: a tick of the game that is neither paused nor dead raises DeathEvent exactly
\* when, at the position apply_movement left the player in, some hazard is in side
\* contact or in top / bottom contact with the player; a hazard whose right edge
\* alone the player touches raises none
C13_DeathIffContact ==
    [][\A dt \in 0..MaxDt :
          (TickStep(dt) /\ ~dead)
              => LET p == PlayerEdges(Tick(dt).translation)
                 IN  (game_over' > game_over)
                        <=> \E i \in Hazards(colliders) :
                               \/ SideContact(p, ColliderEdges(colliders[i]))
                               \/ TopBottomContact(p, ColliderEdges(colliders[i]))]_vars

\* a tick has just left the player alive with its left edge on the right edge of a
\* hazard beside it
C13_TouchedRightEdgeAlone ==
    /\ last.op = "tick"
    /\ ~dead
    /\ \E i \in Hazards(colliders) :
          /\ PlayerEdges(translation).left = ColliderEdges(colliders[i]).right
          /\ VerticallyOverlapping(PlayerEdges(translation), ColliderEdges(colliders[i]))

\* C14: a tick raises at most one DeathEvent, however many hazards are in contact and
\* whichever conditions one hazard meets; a tick of the running game that leaves the
\* player's right edge on a hazard's left edge, the two overlapping vertically, raises
\* exactly one
C14_AtMostOneDeath ==
    [][\A dt \in 0..MaxDt :
          TickStep(dt)
              => LET p == PlayerEdges(Tick(dt).translation)
                 IN  /\ game_over' - game_over <= 1
                     /\ (/\ ~dead
                         /\ \E i \in Hazards(colliders) :
                               SideContact(p, ColliderEdges(colliders[i])))
                            => game_over' - game_over = 1]_vars

-----------------------------------------------------------------------------
(* Properties of the pause gate. *)

\* C15: once a DeathEvent has been handled, and once a ResetSequence has been handled
\* in whatever state it came, Paused is true, and it stays true, so that no tick runs
\* apply_movement or check_spike_collisions, until a PlaySequence is accepted
C15_GateClosedAfterDeathAndReset ==
    [][/\ (dead' \/ last'.op = "reset") => paused'
       /\ (paused /\ ~paused') => (last'.op = "play" /\ ~dead)]_vars

\* this step is a frame of length dt of the paused game
PausedFrameStep(dt) == last'.op = "idle" /\ paused /\ Frame(dt)

\* C16: a frame of the paused game changes neither the translation nor the
\* controller, adds nothing to TotalDistance and raises no DeathEvent; Paused is
\* true when the first step is taken and becomes true only with a PauseSequence (the controls', or
\* the one handle_death triggers in a tick that raised DeathEvent) and false only
\* with a PlaySequence that finds the game not dead
C16_PausedTickIsNoOp ==
    [][/\ \A dt \in 0..MaxDt :
            PausedFrameStep(dt)
                => /\ translation' = translation
                   /\ controller' = controller
                   /\ total_distance' = total_distance
                   /\ game_over' = game_over
                   /\ dead' = dead
       /\ last.op = "init" => paused
       /\ (~paused /\ paused')
             => (last'.op = "pause" \/ (last'.op = "tick" /\ game_over' > game_over))
       /\ (paused /\ ~paused') => (last'.op = "play" /\ ~dead)]_vars

\* a frame has just passed over a paused game whose player is in the air, moving
C16_PausedInTheAir ==
    /\ last.op = "idle"
    /\ paused
    /\ ~dead
    /\ controller.jumping
    /\ controller.vertical_velocity # 0
    /\ controller.speed # 0
    /\ PlayerEdges(translation).bottom > TOP_OF_FLOOR

-----------------------------------------------------------------------------
(* Properties of wrap_within_level. *)

\* the obstacles of the layout with index k
LevelLayout(k) ==
    CASE k = 0 -> spawn_level_0
      [] k = 1 -> spawn_level_1
      [] k = 2 -> spawn_level_2
      [] k = 3 -> spawn_level_3

\* what the wrap step of a frame of length dt does when `crossed` says that the
\* player left by apply_movement at `moved` has crossed the level's right boundary:
\* it puts the player's image just left of the level's left boundary, adds one to
\* the level index and loads the layout of that index modulo TOTAL_LEVELS; when it
\* has not crossed, the position, the level index and the colliders stay
WrapEffect(moved, crossed) ==
    IF crossed
    THEN /\ translation' = [x |-> (-LEVEL_WIDTH \div 2) - (PLAYER_IMAGE_SIZE \div 2),
                             y |-> moved.y]
         /\ current_level' = current_level + 1
         /\ colliders' = <<FloorCollider>> \o LevelLayout((current_level + 1) % TOTAL_LEVELS)
    ELSE /\ translation' = moved
         /\ current_level' = current_level
         /\ colliders' = colliders

\* C17 as stated: the wrap step acts exactly when the left edge of the player (of its
\* collider, as the edges of a rectangle are defined) is strictly right of
\* LEVEL_WIDTH / 2
C17_WrapOnActorLeftEdge ==
    [][\A dt \in 0..MaxDt :
          (last'.op \in {"tick", "idle"} /\ WrapFrame(dt))
              => WrapEffect(FrameMoved(dt),
                            PlayerEdges(FrameMoved(dt)).left > LEVEL_WIDTH \div 2)]_vars

\* C17: the wrap step acts exactly when the left edge of the player's image,
\* x - PLAYER_IMAGE_SIZE / 2, is strictly right of LEVEL_WIDTH / 2; the level index
\* it keeps and hands on is not wrapped, the layout loaded is that of the index modulo
\* TOTAL_LEVELS
C17_WrapOnImageLeftEdge ==
    [][\A dt \in 0..MaxDt :
          (last'.op \in {"tick", "idle"} /\ WrapFrame(dt))
              => WrapEffect(FrameMoved(dt),
                            FrameMoved(dt).x - (PLAYER_IMAGE_SIZE \div 2)
                                > LEVEL_WIDTH \div 2)]_vars

\* a tick has just wrapped the player from the last layout to the first
C17_WrappedToFirstLayout ==
    /\ last.op = "tick"
    /\ translation.x = WrapX
    /\ current_level = TOTAL_LEVELS
    /\ colliders = GameRegistry

-----------------------------------------------------------------------------
(* Properties of the frame. *)

\* this step is a frame of length dt, at the level's right end or beyond, in which
\* apply_movement ran
WrapTickStep(dt) == last'.op = "tick" /\ ~paused /\ WrapFrame(dt)

\* C18: a tick is one pass of apply_movement, then one of check_spike_collisions,
\* then one of wrap_within_level: the controller and the distance are those of one
\* pass of apply_movement, DeathEvent is raised exactly for a hazard in contact at
\* the position that pass produced, and the tick ends at that position, wrapped if
\* it is past the boundary
C18_ResolverThenHazardThenWrap ==
    [][\A dt \in 0..MaxDt :
          WrapTickStep(dt)
              => LET moved == Tick(dt).translation
                     p == PlayerEdges(moved)
                 IN  /\ controller' = Tick(dt).controller
                     /\ total_distance' = total_distance + (moved.x - translation.x)
                     /\ (game_over' > game_over)
                           <=> (/\ ~dead
                                /\ \E i \in Hazards(colliders) :
                                      \/ SideContact(p, ColliderEdges(colliders[i]))
                                      \/ TopBottomContact(p, ColliderEdges(colliders[i])))
                     /\ translation' = IF WrapCondition(moved)
                                        THEN [moved EXCEPT !.x = WrapX]
                                        ELSE moved]_vars

\* a tick has just run the player into a hazard, having wrapped into this level
\* before: the player is dead in the tick whose move was clamped on the hazard
C18_DiedInTheTickThatMoved ==
    /\ last.op = "tick"
    /\ last.h = "clamp"
    /\ dead
    /\ game_over > 0
    /\ translation.x > WrapX

\* C19: the PlayerActions of a beat are applied whole, at a sync point, and before
\* apply_movement moves the player in the frame in which they are dispatched: no sync
\* point applies a PlayerAction in a frame in which apply_movement has already run
\* unpaused
C19_ActionsBeforeResolver ==
    (last.op = "flush" /\ last.applied > 0) => ~last.resolved

\* the weaker reading: PlayerActions are applied only at the sync point between
\* update_sequence_timer and apply_movement
C19_ActionsAtFirstSync ==
    (last.op = "flush" /\ last.applied > 0) => last.node = 1

\* the PlayerActions the beat timer dispatches are applied before apply_movement runs
C19_TimerBeatsBeforeResolver ==
    [][(last'.op = "flush" /\ schedule.node = 1 /\ schedule.queue = <<PlayBeatEvent(schedule.beat)>>)
          => (last'.applied = Len(schedule.rows[schedule.beat + 1]) /\ ~last'.resolved)]_vars

\* C20: in a tick with vertical_velocity > 0 that found a ceiling, the player's top
\* does not end above the ceiling's bottom; vertical_velocity is 0 after the tick if
\* the top is then on the ceiling's bottom and is lowered by GRAVITY * dt if not;
\* jumping is true after the tick
C20_CeilingContract ==
    [][\A dt \in 0..MaxDt :
          (TickStep(dt) /\ controller.vertical_velocity > 0 /\ Tick(dt).closest # None)
              => LET ceiling == Tick(dt).closest[1]
                     top == PlayerEdges(translation').top
                 IN  /\ top <= ceiling
                     /\ controller'.vertical_velocity =
                            IF top = ceiling THEN 0
                            ELSE controller.vertical_velocity - (GRAVITY * dt)
                     /\ controller'.jumping]_vars

\* what holds of such a tick: the top does not end above the ceiling, jumping is
\* true, and the velocity is 0 if the tick brought the top onto the ceiling and is
\* lowered by GRAVITY * dt if the top was on it already or does not reach it
CeilingTickClamps ==
    [][\A dt \in 0..MaxDt :
          (TickStep(dt) /\ controller.vertical_velocity > 0 /\ Tick(dt).closest # None)
              => LET ceiling == Tick(dt).closest[1]
                     top == PlayerEdges(translation').top
                 IN  /\ top <= ceiling
                     /\ controller'.vertical_velocity =
                            IF top = ceiling /\ PlayerEdges(translation).top < ceiling THEN 0
                            ELSE controller.vertical_velocity - (GRAVITY * dt)
                     /\ controller'.jumping]_vars

\* a tick has just found the player's head on a ceiling with the velocity upwards
HeadOnTheCeiling == last.op = "tick" /\ last.v = "smack"

\* a tick has just brought the player's head onto a ceiling
HitTheCeiling == last.op = "tick" /\ last.v = "hit" /\ ~dead

\* C21: with no collider, every unpaused tick of length dt moves the player by
\* speed * dt in x and by vertical_velocity * dt in y, and lowers vertical_velocity by
\* GRAVITY * dt (wrap_within_level, which runs after the tick in the same frame, then
\* puts a player that has reached the right end of the level back at the left end)
C21_FreeMotion ==
    [][\A dt \in 0..MaxDt :
          (TickStep(dt) /\ colliders = <<>>)
              => /\ Tick(dt).translation.x = translation.x + (controller.speed * dt)
                 /\ translation'.x = IF WrapCondition(Tick(dt).translation)
                                      THEN WrapX
                                      ELSE translation.x + (controller.speed * dt)
                 /\ translation'.y = translation.y + (controller.vertical_velocity * dt)
                 /\ controller'.vertical_velocity
                        = controller.vertical_velocity - (GRAVITY * dt)]_vars

\* a tick with no collider has just moved the player, which is going left and down
C21_MovedFreely ==
    /\ colliders = <<>>
    /\ last.op = "tick"
    /\ last.h = "free"
    /\ last.v = "open"
    /\ controller.speed < 0
    /\ controller.vertical_velocity < -GRAVITY
    /\ translation.x < SpawnTranslation.x
    /\ translation.y < SpawnTranslation.y

\* C22: a tick of length dt that finds the player at rest (not jumping, no vertical
\* velocity) higher above the nearest floor than GRAVITY * dt * dt leaves
\* vertical_velocity at -GRAVITY * dt and y lower by GRAVITY * dt * dt
C22_FirstTickFalls ==
    [][\A dt \in 0..MaxDt :
          (/\ TickStep(dt)
           /\ ~controller.jumping
           /\ controller.vertical_velocity = 0
           /\ Tick(dt).closest # None
           /\ PlayerEdges(translation).bottom - Tick(dt).closest[1] > GRAVITY * dt * dt)
              => /\ controller'.vertical_velocity = -(GRAVITY * dt)
                 /\ translation'.y = translation.y - (GRAVITY * dt * dt)]_vars

\* C22, as the code has it: such a tick, the player anywhere above the floor the scan
\* found, leaves vertical_velocity at -GRAVITY * dt and jumping true, and leaves y
\* where it was: the move is by the velocity the tick started with
C22_FirstTickKeepsHeight ==
    [][\A dt \in 0..MaxDt :
          (/\ TickStep(dt)
           /\ ~controller.jumping
           /\ controller.vertical_velocity = 0
           /\ Tick(dt).closest # None
           /\ PlayerEdges(translation).bottom - Tick(dt).closest[1] > EPSILON)
              => /\ controller'.vertical_velocity = -(GRAVITY * dt)
                 /\ controller'.jumping
                 /\ translation'.y = translation.y]_vars

\* a tick of positive length has just found the player at rest above the floor
C22_LeftTheBoxTop ==
    /\ last.op = "tick"
    /\ last.v = "fall"
    /\ last.rest
    /\ controller.vertical_velocity < 0
    /\ ~dead

\* C23: an unpaused tick of length dt with speed < 0 moves x by speed * dt, whatever
\* the colliders, a wall at the player's right edge included
C23_LeftwardNeverObstructed ==
    [][\A dt \in 0..MaxDt :
          (TickStep(dt) /\ controller.speed < 0)
              => translation'.x = translation.x + (controller.speed * dt)]_vars

\* what holds of the leftward ticks: x moves by speed * dt unless a wall is at the
\* player's right edge, and then it does not move
LeftwardUnlessTouching ==
    [][\A dt \in 0..MaxDt :
          (TickStep(dt) /\ controller.speed < 0)
              => translation'.x =
                    IF /\ Tick(dt).wall # None
                       /\ Tick(dt).wall[1] - PlayerEdges(translation).right <= EPSILON
                    THEN translation.x
                    ELSE translation.x + (controller.speed * dt)]_vars

\* C24: a tick of length 0 changes neither the translation nor vertical_velocity
C24_ZeroDtTick ==
    [][TickStep(0)
          => /\ translation' = translation
             /\ controller'.vertical_velocity = controller.vertical_velocity]_vars

\* a tick of length 0 has just found the player at rest in the air over a floor: the
\* falling arm ran and the velocity is still 0
C24_ZeroDtInTheAir ==
    /\ last.op = "tick"
    /\ last.rest
    /\ last.v = "fall"
    /\ controller.vertical_velocity = 0
    /\ controller.speed > 0

\* C25: TotalDistance is the sum, over the unpaused ticks since the last
\* ResetSequence, of the x the horizontal pass left minus the x it found: every such
\* tick adds that difference (the clamped amount when the move was clamped, nothing
\* for the wrap that may follow), ResetSequence sets it to 0, and nothing else
\* changes it
C25_DistanceIsDisplacement ==
    [][/\ \A dt \in 0..MaxDt :
             WrapTickStep(dt)
                 => total_distance' = total_distance + (Tick(dt).translation.x - translation.x)
       /\ last'.op = "reset" => total_distance' = 0
       /\ last'.op \notin {"tick", "reset"} => total_distance' = total_distance]_vars

\* a tick has just taken the player past the right end of a level and the wrap has
\* moved it back: the distance has grown by the move, not shrunk by the wrap
C25_WrappedAndCounted ==
    /\ last.op = "tick"
    /\ translation.x = WrapX
    /\ current_level > 0
    /\ total_distance > LEVEL_WIDTH

\* a tick after a reset has just been clamped on a wall
C25_ClampedAfterReset ==
    /\ last.op = "tick"
    /\ last.h = "clamp"
    /\ current_level = 0
    /\ total_distance > 0
    /\ total_distance = translation.x - SpawnTranslation.x

\* the registry reg in the order f, a permutation of its indices
Reordered(reg, f) == [i \in 1..Len(reg) |-> reg[f[i]]]

\* the orders a registry of n colliders is tried in: every permutation up to
\* MaxPermuted colliders, the reversal and the rotations beyond
Orders(n) ==
    IF n <= MaxPermuted THEN Permutations(1..n)
    ELSE {[i \in 1..n |-> n + 1 - i]}
            \cup {[i \in 1..n |-> ((i + k - 1) % n) + 1] : k \in 1..n}

\* the colliders of reg whose top is the floor a fall from t ends on
FloorsUnder(t, reg) ==
    {i \in 1..Len(reg) :
        LET o == ColliderEdges(reg[i])
            p == PlayerEdges(t)
        IN  /\ o.top = p.bottom
            /\ ~(p.left > o.right \/ p.right < o.left)}

\* C26: a tick gives the same translation and controller for every order of the
\* same colliders, equally near walls, floors or ceilings among them
C26_OrderIndependent ==
    [][\A dt \in 0..MaxDt :
          TickStep(dt)
              => LET tick == Tick(dt)
                 IN  \A f \in Orders(Len(colliders)) :
                        LET m == apply_movement(translation, controller,
                                                Reordered(colliders, f), dt)
                        IN  /\ m.translation = tick.translation
                            /\ m.controller = tick.controller]_vars

\* the colliders of reg that are walls at the right edge of the player at t
WallsTouched(t, reg) ==
    {i \in 1..Len(reg) :
        LET o == ColliderEdges(reg[i])
            p == PlayerEdges(t)
        IN  /\ o.left = p.right
            /\ ~(p.bottom > o.top \/ p.top < o.bottom)}

\* a tick has just clamped the player on two walls at once
ClampedOnTwo ==
    /\ last.op = "tick"
    /\ last.h = "clamp"
    /\ Cardinality(WallsTouched(translation, colliders)) > 1

\* a tick has just landed the player on two colliders at once, equally near floors
\* when the tick began
C26_LandedOnTwo ==
    /\ last.op = "tick"
    /\ last.v = "land"
    /\ Cardinality(FloorsUnder(translation, colliders)) > 1

\* the state of a fresh run
FreshRun(w) ==
    /\ ~w.dead
    /\ w.current_level = 0
    /\ w.total_distance = 0
    /\ w.beat = 0
    /\ w.timer_paused
    /\ w.timer_zero
    /\ w.colliders = GameRegistry
    /\ w.translation = SpawnTranslation
    /\ w.controller = NewMovementController

\* C27: a ResetSequence, in whatever state it is applied, leaves a fresh run: Dead
\* false, CurrentLevel 0, TotalDistance 0, beat 0, the beat timer paused and reset,
\* the colliders those of level 0, and the player at the spawn translation with a
\* new MovementController
C27_ResetIsFresh ==
    [][(/\ last'.op = "flush"
        /\ schedule.queue # <<>>
        /\ schedule.queue[Len(schedule.queue)] = ResetSequenceEvent)
          => FreshRun(World)']_vars

\* a ResetSequence has just been applied to a dead player in the last level
C27_ResetAfterDeath ==
    /\ last.op = "flush"
    /\ last.resets > 0
    /\ last.found.dead
    /\ last.found.level = TOTAL_LEVELS - 1
    /\ ~dead

\* C28: SetSpeed(v) sets speed to v in every state, on the ground or in the air,
\* paused or not, and leaves vertical_velocity, jumping and the translation alone;
\* no frame changes speed, a frame blocked by a wall included
C28_SetSpeedUnconditional ==
    [][/\ \A v \in Speeds :
             (last'.op = "action" /\ DoPlayerAction(SetSpeed(v)))
                 => /\ controller' = [controller EXCEPT !.speed = v]
                    /\ translation' = translation
       /\ last'.op \in {"tick", "idle"} => controller'.speed = controller.speed]_vars

\* a tick has just found the player in the air with its right edge on a wall, and the
\* speed a SetSpeed gave it is still there
C28_BlockedAtSpeed ==
    /\ last.op = "tick"
    /\ last.h = "blocked"
    /\ controller.jumping
    /\ controller.speed > 0

\* the colliders of reg whose interior the player's collider at t overlaps
Penetrated(t, reg) ==
    {i \in 1..Len(reg) :
        LET o == ColliderEdges(reg[i])
            p == PlayerEdges(t)
        IN  p.left < o.right /\ p.right > o.left /\ p.bottom < o.top /\ p.top > o.bottom}

\* C29: the player's collider never overlaps the interior of a collider
C29_NoPenetration == Penetrated(translation, colliders) = {}

\* C30: a jumping player with a floor beneath it is never in a state that every tick
\* of positive length leaves as it is (from such a state, with no further action,
\* no run of ticks ever ends the jump)
C30_JumpNeverLost ==
    (/\ controller.jumping
     /\ \E i \in 1..Len(colliders) :
            LET o == ColliderEdges(colliders[i])
                p == PlayerEdges(translation)
            IN  o.top <= p.bottom /\ ~(p.left > o.right \/ p.right < o.left))
        => ~NoTickMoves

-----------------------------------------------------------------------------
(* Properties of the sequencer. *)

\* C31: a beat leaves the same controller whatever the order its rows are dispatched
\* in
C31_BeatActionsCommute ==
    [][last'.op = "beat"
          => \A f \in Permutations(1..Len(schedule.rows[1])) :
                controller' = BeatDispatched(controller, Reordered(schedule.rows[1], f))]_vars

\* C32: a dead game is halted: Dead implies Paused and a paused beat timer; a
\* PlaySequence flushed while Dead changes neither Paused nor the beat timer and
\* dispatches no beat; and Dead goes back to false only in a flush that ran
\* reset_sequence
C32_DeadImpliesHalted ==
    [][/\ dead => (paused /\ schedule.timer_paused)
       /\ dead' => (paused' /\ schedule'.timer_paused)
       /\ (last'.op = "flush" /\ dead /\ schedule.queue = <<PlaySequenceEvent>>)
             => /\ paused' = paused
                /\ schedule'.timer_paused = schedule.timer_paused
                /\ schedule'.timer_zero = schedule.timer_zero
                /\ schedule'.beat = schedule.beat
                /\ last'.applied = 0
                /\ controller' = controller
       /\ (dead /\ ~dead') => (last'.op = "flush" /\ last'.resets > 0)]_vars

\* a PlaySequence has just been flushed in a dead game whose beat timer was at zero
C32_PlayedWhileDead ==
    /\ last.op = "flush"
    /\ last.found.dead
    /\ last.found.queue = <<PlaySequenceEvent>>
    /\ schedule.timer_zero
    /\ dead

\* a DeathEvent has just been flushed in a game that was playing
DiedInThisFlush ==
    /\ last.op = "flush"
    /\ ~last.found.dead
    /\ dead

-----------------------------------------------------------------------------
(* More properties of the resolver tick. *)

SetMax(S) == CHOOSE x \in S : \A y \in S : x >= y

\* the top edges of the colliders of reg that horizontally overlap the player at t
\* and are at or below its bottom edge
FloorTopsBeneath(t, reg) ==
    {ColliderEdges(reg[i]).top : i \in
        {j \in 1..Len(reg) :
            /\ HorizontallyOverlapping(PlayerEdges(t), ColliderEdges(reg[j]))
            /\ ColliderEdges(reg[j]).top <= PlayerEdges(t).bottom}}

\* the bottom edges of the colliders of reg that horizontally overlap the player at t
\* and are at or above its top edge
CeilingBottomsAbove(t, reg) ==
    {ColliderEdges(reg[i]).bottom : i \in
        {j \in 1..Len(reg) :
            /\ HorizontallyOverlapping(PlayerEdges(t), ColliderEdges(reg[j]))
            /\ ColliderEdges(reg[j]).bottom >= PlayerEdges(t).top}}

\* C33: a tick that starts falling does not end with the player's bottom edge below
\* the highest top edge among the floors under the player at the start of the tick,
\* and a tick that starts rising does not end with the player's top edge above the
\* lowest bottom edge among the ceilings over it at the start of the tick, however
\* far the velocity and dt would carry it
C33_VerticalClampsHold ==
    [][\A dt \in 0..MaxDt :
          TickStep(dt)
              => IF controller.vertical_velocity <= 0
                 THEN FloorTopsBeneath(translation, colliders) # {}
                        => PlayerEdges(translation').bottom
                               >= SetMax(FloorTopsBeneath(translation, colliders))
                 ELSE CeilingBottomsAbove(translation, colliders) # {}
                        => PlayerEdges(translation').top
                               <= SetMin(CeilingBottomsAbove(translation, colliders))]_vars

\* a fall has just been stopped on the top of the box of the level
C33_StoppedOnTheBox ==
    /\ last.op = "tick"
    /\ last.v = "land"
    /\ PlayerEdges(translation).bottom > TOP_OF_FLOOR
    /\ ~controller.jumping

-----------------------------------------------------------------------------
(* More properties of the sequencer. *)

\* C34: beats are dispatched in cyclic order: the beat index stays in
\* 0..NUM_BEATS_IN_SEQUENCE-1; a finished beat timer advances it by one modulo
\* NUM_BEATS_IN_SEQUENCE and triggers PlayBeat of the new index; a flush that ran
\* reset_sequence and nothing after it leaves it 0; and every PlayBeat a sync point
\* dispatches is of the beat the index is at
C34_BeatsInCyclicOrder ==
    [][/\ schedule'.beat \in 0..(NUM_BEATS_IN_SEQUENCE - 1)
       /\ (last'.op = "timer" /\ Len(schedule'.queue) > Len(schedule.queue))
             => /\ schedule'.beat = (schedule.beat + 1) % NUM_BEATS_IN_SEQUENCE
                /\ schedule'.queue = Append(schedule.queue, PlayBeatEvent(schedule'.beat))
       /\ (last'.op = "timer" /\ Len(schedule'.queue) = Len(schedule.queue))
             => schedule'.beat = schedule.beat
       /\ (last'.op = "flush" /\ schedule.queue = <<ResetSequenceEvent>>)
             => schedule'.beat = 0
       /\ last'.op = "flush"
             => \A i \in 1..Len(last'.played) : last'.played[i].beat = last'.played[i].at]_vars

\* what holds of the beats: all of C34 but for the PlayBeat that play_sequence
\* triggers, which is of beat 0 whatever the index, and the PlayBeat that is flushed
\* together with a ResetSequence
BeatsAdvanceByOne ==
    [][/\ schedule'.beat \in 0..(NUM_BEATS_IN_SEQUENCE - 1)
       /\ (last'.op = "timer" /\ Len(schedule'.queue) > Len(schedule.queue))
             => /\ schedule'.beat = (schedule.beat + 1) % NUM_BEATS_IN_SEQUENCE
                /\ schedule'.queue = Append(schedule.queue, PlayBeatEvent(schedule'.beat))
       /\ (last'.op = "timer" /\ Len(schedule'.queue) = Len(schedule.queue))
             => schedule'.beat = schedule.beat
       /\ (last'.op = "flush" /\ schedule.queue = <<ResetSequenceEvent>>)
             => schedule'.beat = 0
       /\ last'.op = "flush"
             => \A i \in 1..Len(last'.played) :
                   \/ last'.played[i].beat = last'.played[i].at
                   \/ /\ last'.played[i].beat = 0
                      /\ \E k \in 1..Len(schedule.queue) :
                            schedule.queue[k] = PlaySequenceEvent
                   \/ \E k \in 1..Len(schedule.queue) :
                         schedule.queue[k] = ResetSequenceEvent]_vars

\* the first PlayBeat after a reset: a PlaySequence flushed on a freshly reset
\* sequencer has dispatched beat 0
PlayedBeatZeroAfterReset ==
    /\ last.op = "flush"
    /\ last.found.queue = <<PlaySequenceEvent>>
    /\ last.played = <<[beat |-> 0, at |-> 0]>>

\* C35: the beat buttons are disabled whenever the beat timer runs or Dead is set; a
\* sync point whose only command is a PlaySequence that is accepted, or whose last
\* command is a DeathEvent, leaves them disabled; one whose only command is a
\* PauseSequence leaves them as they were; they go from disabled to enabled only at a
\* sync point that ran reset_sequence; and a press on a disabled beat button changes
\* neither the buttons nor the Sequence
C35_EditedOnlyWhileStopped ==
    [][/\ (~schedule.timer_paused \/ dead) => ~schedule.enabled
       /\ (~schedule'.timer_paused \/ dead') => ~schedule'.enabled
       /\ (last'.op = "flush" /\ schedule.queue = <<PlaySequenceEvent>> /\ ~dead)
             => ~schedule'.enabled
       /\ (/\ last'.op = "flush"
           /\ schedule.queue # <<>>
           /\ schedule.queue[Len(schedule.queue)] = DeathEvent)
             => ~schedule'.enabled
       /\ (last'.op = "flush" /\ schedule.queue = <<PauseSequenceEvent>>)
             => schedule'.enabled = schedule.enabled
       /\ (schedule'.enabled /\ ~schedule.enabled)
             => (last'.op = "flush" /\ last'.resets > 0)
       /\ (last'.op = "press" /\ ~schedule.enabled)
             => (schedule'.active = schedule.active /\ schedule'.rows = schedule.rows)]_vars

\* a beat button has just been pressed while the sequence was paused after playing
C35_PressedWhilePaused ==
    /\ last.op = "press"
    /\ ~last.enabled
    /\ schedule.timer_paused
    /\ ~dead

\* C36: a beat button is active if and only if its row is in the Sequence at its
\* beat, and no sync point (ResetSequence, DeathEvent, PlaySequence, PauseSequence)
\* changes the Sequence or the buttons
C36_ButtonsMirrorSequence ==
    [][/\ schedule.active = ButtonsOf(schedule.rows)
       /\ schedule'.active = ButtonsOf(schedule'.rows)
       /\ last'.op = "flush"
             => (schedule'.rows = schedule.rows /\ schedule'.active = schedule.active)]_vars

\* a button has just been toggled off in a later frame than the first, its row
\* leaving a beat that keeps another row
C36_ToggledOff ==
    /\ last.op = "press"
    /\ last.enabled
    /\ last.button \notin schedule.active
    /\ schedule.rows[last.button.beat + 1] # <<>>
    /\ schedule.frames > 0

\* a DeathEvent has just been flushed in the frames with the beat buttons
DiedWithButtons ==
    /\ last.op = "flush"
    /\ ~last.found.dead
    /\ dead
    /\ schedule.active # {}

-----------------------------------------------------------------------------
(* More properties of wrap_within_level. *)

\* C37: CurrentLevel counts the wraps since the last reset: wrap_within_level adds
\* one to it exactly when it wraps the player, nothing else changes it but a sync
\* point that ran reset_sequence, which leaves it 0, and between frames the obstacles
\* are those of the layout CurrentLevel mod TOTAL_LEVELS
C37_LevelCountsWraps ==
    [][/\ last'.op = "wrap"
             => current_level' = IF WrapCondition(translation) THEN current_level + 1
                                 ELSE current_level
       /\ (last'.op # "wrap" /\ current_level' # current_level)
             => (last'.op = "flush" /\ last'.resets > 0 /\ current_level' = 0)
       /\ (schedule'.node = 0 /\ schedule'.queue = <<>>)
             => colliders' = <<FloorCollider>> \o LevelLayout(current_level' % TOTAL_LEVELS)]_vars

\* what holds of CurrentLevel: the counting of C37, and the layout after a sync
\* point whose only command is the SpawnObstacles of a wrap or a ResetSequence
LevelCountsWrapsUnlessReset ==
    [][/\ last'.op = "wrap"
             => current_level' = IF WrapCondition(translation) THEN current_level + 1
                                 ELSE current_level
       /\ (last'.op # "wrap" /\ current_level' # current_level)
             => (last'.op = "flush" /\ last'.resets > 0 /\ current_level' = 0)
       /\ (/\ last'.op = "flush"
           /\ schedule.queue \in {<<SpawnObstaclesEvent(current_level)>>, <<ResetSequenceEvent>>})
             => colliders' = <<FloorCollider>> \o LevelLayout(current_level' % TOTAL_LEVELS)]_vars

\* a wrap past the last layout has just loaded the first one again
WrappedToTheFirstLayoutAgain ==
    /\ last.op = "flush"
    /\ last.found.queue = <<SpawnObstaclesEvent(TOTAL_LEVELS)>>
    /\ current_level = TOTAL_LEVELS
    /\ colliders = GameRegistry

\* C38: a level wrap changes only translation.x and CurrentLevel: the step of
\* wrap_within_level that finds the wrap condition true puts the player at the left
\* end of the level and adds one to CurrentLevel, and leaves translation.y, the
\* controller's speed, vertical velocity and jumping flag, Paused and Dead as they
\* were; a step that finds it false changes none of them; and after either step the
\* wrap condition is false, so the next run of wrap_within_level does not advance the
\* level again for the same crossing
C38_WrapChangesOnlyXAndLevel ==
    [][last'.op = "wrap"
          => /\ translation'.y = translation.y
             /\ controller' = controller
             /\ paused' = paused
             /\ dead' = dead
             /\ translation'.x = IF WrapCondition(translation) THEN WrapX ELSE translation.x
             /\ current_level' = IF WrapCondition(translation) THEN current_level + 1
                                 ELSE current_level
             /\ ~WrapCondition(translation')]_vars

\* wrap_within_level has just wrapped a walking player: the SpawnObstacles of the
\* level it entered is the last command of the queue
C38_WrappedWhileWalking ==
    /\ last.op = "wrap"
    /\ translation.x = WrapX
    /\ current_level > 0
    /\ controller.speed # 0
    /\ ~paused
    /\ schedule.queue # <<>>
    /\ schedule.queue[Len(schedule.queue)] = SpawnObstaclesEvent(current_level)

====
